---- MODULE Spec2Model ----
(***************************************************************************)
(* Route optimisation service of maps_tournees_camions: the Route Cache    *)
(* (utils/cacheManager.ts) and the OpenStreetMapRoutingService             *)
(* (calculateRoute, the location sequencer, the segment resolver and the   *)
(* Segment Cache).                                                         *)
(*                                                                         *)
(* Units.  Coordinates are integers counting 1e-5 degree.  Distances are   *)
(* integers counting metres, durations integers counting 1e-3 minute, the  *)
(* clock (Date.now) counts milliseconds.  Divisions truncate.              *)
(***************************************************************************)
EXTENDS Integers, Sequences, FiniteSets, TLC

VARIABLES
    routeCache,         \* cacheManager.ts routeCache: Map in insertion order
    now,                \* Date.now()
    call,               \* the last cache-API / service call, its arguments, its time
    ret,                \* what that call returned (<<>> is null, <<x>> is x)
    segmentCache,       \* service.segmentCache: key -> segment
    segmentCacheOrder,  \* service.segmentCacheOrder
    apiKey,             \* service.openRouteServiceApiKey is configured
    run,                \* the locals of the calculateRoute call in progress
    runs,               \* calculateRoute calls started so far
    ticks,              \* clock advances so far
    asked,              \* the providers the last step called, in order
    answers,            \* what the two providers answered in the last step
    network,            \* the providers' condition: "up", "down" or "any"
    preferences,        \* localStorage's routeOptimizer_preferences item
    fetches,            \* the run's provider calls (fetch), with their answers
    other               \* the position of a second, interleaved calculateRoute

vars == <<routeCache, now, call, ret, segmentCache, segmentCacheOrder,
          apiKey, run, runs, ticks, asked, answers, network, preferences,
          fetches, other>>

---------------------------------------------------------------------------
(* Bounds of the model.                                                    *)

\* Entries the Route Cache holds when the cache API is first exercised.
CacheFill == 49
\* Clock advances explored.
MaxTicks == 1
\* calculateRoute calls explored, over the wide set of requests.
MaxRuns == 1
\* calculateRoute calls explored, one after another, over the narrow set.
MaxRepeatRuns == 2
\* calculateRoute calls explored over the requests of 4 stops, the
\* providers all up or all down.
MaxSeqRuns == 1
\* segments a long run has resolved before the cache is watched, and run
\* boundaries watched
SegFill == 98
MaxSegRuns == 1
\* locked stops of a route longer than the Segment Cache, and runs of it
LongLocked == 101
MaxLongRuns == 1
\* calculateRoute calls in the runs followed call by call.
MaxAwaitRuns == 1
\* calculateRoute calls in the runs followed to their return.
MaxTermRuns == 1
\* calculateRoute calls followed while another run shares the instance.
MaxSharedRuns == 1
\* calculateRoute calls on requests that differ in their locks only.
MaxLockRuns == 2

---------------------------------------------------------------------------
(* Values.                                                                 *)

Null == <<>>
Some(x) == <<x>>

\* Location.order is optional: NoOrder stands for undefined.
NoOrder == -1
\* Location.coordinates is optional: <<>> stands for undefined,
\* <<latitude, longitude>> for a located stop.
NoCoordinates == <<>>

VehicleTypes == {"car", "truck"}
OptimizationMethods == {"shortest_distance", "fastest_time", "balanced"}

Loc(id, coords, locked, order) ==
    [id |-> id, coordinates |-> coords, isLocked |-> locked, order |-> order]

Request(locs, vehicle, method, loop) ==
    [locations |-> locs, vehicleType |-> vehicle,
     optimizationMethod |-> method, isLoop |-> loop]

Abs(x) == IF x < 0 THEN -x ELSE x

RECURSIVE SumSeq(_, _)
\* Array.prototype.reduce((sum, x) => sum + f(x), 0), f given as a field name
SumSeq(s, field) ==
    IF s = <<>> THEN 0
    ELSE IF Len(s) = 1 THEN s[1][field]
    ELSE SumSeq(SubSeq(s, 1, Len(s) \div 2), field)
         + SumSeq(SubSeq(s, Len(s) \div 2 + 1, Len(s)), field)

SelectIdx(s, Keep(_)) ==
    \* indices (ascending) of the elements of s satisfying Keep
    LET RECURSIVE Go(_, _)
        Go(lo, hi) ==
            IF lo > hi THEN <<>>
            ELSE IF lo = hi THEN (IF Keep(s[lo]) THEN <<lo>> ELSE <<>>)
            ELSE Go(lo, (lo + hi) \div 2) \o Go((lo + hi) \div 2 + 1, hi)
    IN Go(1, Len(s))

---------------------------------------------------------------------------
(* Route Cache: utils/cacheManager.ts                                      *)

\* a time-to-live of one hour, the variant C5 is tested against
RouteCacheOneHour == 60 * 60 * 1000

ROUTE_CACHE_DURATION == 30 * 60 * 1000
ROUTE_CACHE_MAX == 50

\* Number.prototype.toFixed(4) of a coordinate: the sign and the magnitude
\* rounded to 1e-4 degree ("-0.0000" and "0.0000" are different strings).
\* Exact ties (a last digit 5) depend on the binary representation and are
\* kept out of the coordinates used.
ToFixed4(x) == <<x < 0, (Abs(x) + 5) \div 10>>

\* `${lat.toFixed(4)}_${lon.toFixed(4)}` of one stop; "undefined_undefined"
\* for a stop without coordinates.
UndefinedFixed == <<FALSE, -1>>

LocationKey(loc) ==
    IF loc.coordinates = NoCoordinates THEN <<UndefinedFixed, UndefinedFixed>>
    ELSE <<ToFixed4(loc.coordinates[1]), ToFixed4(loc.coordinates[2])>>

\* a key that leaves the loop flag out, the variant C4 is tested against
generateRouteKeyNoLoop(request) ==
    <<[i \in 1..Len(request.locations) |-> LocationKey(request.locations[i])],
      request.vehicleType, request.optimizationMethod>>

generateRouteKey(request) ==
    <<[i \in 1..Len(request.locations) |-> LocationKey(request.locations[i])],
      request.vehicleType, request.optimizationMethod, request.isLoop>>

\* index of key in the map's insertion order, 0 when absent
CacheIndex(cache, key) ==
    IF \E i \in 1..Len(cache) : cache[i].key = key
    THEN CHOOSE i \in 1..Len(cache) : cache[i].key = key
    ELSE 0

CacheKeys(cache) == {cache[i].key : i \in 1..Len(cache)}

\* cleanRouteCache's test: now - value.timestamp > ROUTE_CACHE_DURATION
Expired(entry, t) == t - entry.timestamp > ROUTE_CACHE_DURATION

\* getCachedRoute's test: Date.now() - cached.timestamp < ROUTE_CACHE_DURATION
Live(entry, t) == t - entry.timestamp < ROUTE_CACHE_DURATION

\* a purge that deletes nothing, the variant C23 is tested against
cleanRouteCacheKeepAll(cache, t) == cache

cleanRouteCache(cache, t) ==
    LET keep == SelectIdx(cache, LAMBDA e : ~Expired(e, t))
    IN [i \in 1..Len(keep) |-> cache[keep[i]]]

\* a lookup that never finds anything, the variant C8 is tested against
LookupRouteNever(cache, request, t) == Null

\* the route getCachedRoute returns, on the cache as cleanRouteCache left it
LookupRoute(cache, request, t) ==
    LET i == CacheIndex(cache, generateRouteKey(request))
    IN IF i # 0 /\ Live(cache[i], t) THEN Some(cache[i].route) ELSE Null

\* a store that keeps the timestamp of the entry it overwrites, the variant
\* C7 is tested against
MapSetKeepTimestamp(cache, key, route, t) ==
    LET i == CacheIndex(cache, key)
    IN IF i # 0
       THEN [cache EXCEPT ![i] = [key |-> key, route |-> route,
                                  timestamp |-> cache[i].timestamp]]
       ELSE Append(cache, [key |-> key, route |-> route, timestamp |-> t])

\* Map.prototype.set: an existing key keeps its place in the insertion order
MapSet(cache, key, route, t) ==
    LET i == CacheIndex(cache, key)
        e == [key |-> key, route |-> route, timestamp |-> t]
    IN IF i # 0 THEN [cache EXCEPT ![i] = e] ELSE Append(cache, e)

\* eviction of the entry stored last, the variant C3 is tested against
LastIndex(cache) == Len(cache)

\* eviction of the entry inserted first (FIFO), the variant C6 is tested
\* against
FirstIndex(cache) == 1

\* Array.from(entries).sort((a, b) => a[1].timestamp - b[1].timestamp)[0]:
\* the sort is stable, so among the entries of least timestamp the one
\* inserted first comes first.
OldestIndex(cache) ==
    CHOOSE i \in 1..Len(cache) :
        /\ \A j \in 1..Len(cache) : cache[i].timestamp <= cache[j].timestamp
        /\ \A j \in 1..(i - 1) : cache[j].timestamp # cache[i].timestamp

RemoveAt(s, i) == SubSeq(s, 1, i - 1) \o SubSeq(s, i + 1, Len(s))

\* a store that never deletes, the variant C35 is tested against
setCachedRouteNoEviction(cache, request, route, t) ==
    MapSet(cache, generateRouteKey(request), route, t)

setCachedRoute(cache, request, route, t) ==
    LET stored == MapSet(cache, generateRouteKey(request), route, t)
    IN IF Len(stored) > ROUTE_CACHE_MAX
       THEN RemoveAt(stored, OldestIndex(stored))
       ELSE stored

---------------------------------------------------------------------------
(* Geodesic calculator and speed bands                                     *)

RECURSIVE IsqrtIn(_, _, _)
IsqrtIn(x, lo, hi) ==
    \* the r in lo..hi with r*r <= x < (r+1)*(r+1), by bisection
    IF lo >= hi THEN lo
    ELSE LET mid == (lo + hi + 1) \div 2
         IN IF mid * mid <= x THEN IsqrtIn(x, mid, hi)
            ELSE IsqrtIn(x, lo, mid - 1)

\* 46340 * 46340 is the largest square below 2^31
Isqrt(x) == IsqrtIn(x, 0, IF x < 46340 THEN x ELSE 46340)

\* calculateDistance: the haversine great-circle distance, here in metres.
\* The stops of the model lie within a few kilometres of the equator, where
\* the haversine formula agrees with the flat-earth distance
\* sqrt(dLat^2 + dLon^2) * (2 * pi * 6371 km / 360 degrees) to the metre;
\* one unit of 1e-5 degree is 1.11195 m.
calculateDistance(coord1, coord2) ==
    LET dLat == coord2[1] - coord1[1]
        dLon == coord2[2] - coord1[2]
    IN (Isqrt(dLat * dLat + dLon * dLon) * 111195) \div 100000

\* estimateSpeed(distance), distance in metres, speed in km/h
estimateSpeed(distance) ==
    IF distance > 10000 THEN 65
    ELSE IF distance > 5000 THEN 55
    ELSE 40

---------------------------------------------------------------------------
(* Segment Cache and segment resolver                                      *)

MAX_SEGMENT_CACHE_SIZE == 100

\* `${from.id}-${to.id}-${vehicleType}` (the ids of the model hold no "-")
generateSegmentKey(from, to, vehicleType) == <<from.id, to.id, vehicleType>>

EmptyMap == [k \in {} |-> 0]

MapDelete(m, key) == [k \in (DOMAIN m) \ {key} |-> m[k]]

MapPut(m, key, value) == [k \in (DOMAIN m) \cup {key} |->
                             IF k = key THEN value ELSE m[k]]

\* a clear that leaves the map as it is, the variant C18 is tested against
clearSegmentCacheNothing(cache, order) == [cache |-> cache, order |-> order]

\* clearSegmentCache: this.segmentCache.clear()
clearSegmentCache(cache, order) == [cache |-> EmptyMap, order |-> order]

RECURSIVE EvictOldest(_, _)
\* cacheSegment's while loop: shift the order record, delete that key
EvictOldest(cache, order) ==
    IF Cardinality(DOMAIN cache) >= MAX_SEGMENT_CACHE_SIZE /\ Len(order) > 0
    THEN EvictOldest(MapDelete(cache, Head(order)), Tail(order))
    ELSE [cache |-> cache, order |-> order]

\* a store that evicts nothing, the variant C34 is tested against
cacheSegmentNoEviction(cache, order, key, segment) ==
    [cache |-> MapPut(cache, key, segment), order |-> Append(order, key)]

cacheSegment(cache, order, key, segment) ==
    LET e == EvictOldest(cache, order)
    IN [cache |-> MapPut(e.cache, key, segment), order |-> Append(e.order, key)]

\* What a provider call can answer: a route, an error (network failure or
\* non-2xx status), or a body without a usable route.
Failures == {[status |-> s, distance |-> 0, duration |-> 0] :
                 s \in {"error", "malformed"}}

\* The general provider's answers for an edge: a route with the distance
\* in metres by road (a detour of 20% over the geodesic) and the duration
\* in seconds at 60 km/h; or a failure.
OsrmAnswers(from, to) ==
    LET g == calculateDistance(from.coordinates, to.coordinates)
    IN {[status |-> "ok", distance |-> (g * 12) \div 10,
         duration |-> (((g * 12) \div 10) * 6) \div 100]}
       \cup Failures

\* The heavy-vehicle provider's answers: a route with summary.distance
\* (km, here metres) and summary.duration in seconds at 45 km/h; or a
\* failure.
OrsAnswers(from, to) ==
    LET g == calculateDistance(from.coordinates, to.coordinates)
    IN {[status |-> "ok", distance |-> (g * 13) \div 10,
         duration |-> (((g * 13) \div 10) * 8) \div 100]}
       \cup Failures

NoAnswer == [status |-> "none", distance |-> 0, duration |-> 0]

Segment(from, to, distance, duration, polyline) ==
    [from |-> from, to |-> to, distance |-> distance, duration |-> duration,
     polyline |-> polyline]

\* calculateSegmentWithORS on an "ok" answer
OrsSegment(from, to, answer) ==
    Segment(from, to, answer.distance, (answer.duration * 1000) \div 60,
            "linestring")

\* the general provider's segment: km and minutes, then the truck factors
TruckDistance(distance) == (distance * 11) \div 10
TruckDuration(duration) == (duration * 14) \div 10

\* a general provider's segment without the truck factors, the variant C21
\* is tested against
OsrmSegmentUnadjusted(from, to, vehicleType, answer) ==
    Segment(from, to, answer.distance, (answer.duration * 1000) \div 60,
            "geojson")

OsrmSegment(from, to, vehicleType, answer) ==
    LET distance == answer.distance
        duration == (answer.duration * 1000) \div 60
    IN IF vehicleType = "truck"
       THEN Segment(from, to, TruckDistance(distance), TruckDuration(duration),
                    "geojson")
       ELSE Segment(from, to, distance, duration, "geojson")

\* a straight-line tier whose duration is never 0, the variant C15 is tested
\* against
FallbackSegmentPositive(from, to, vehicleType) ==
    LET distance == calculateDistance(from.coordinates, to.coordinates)
        estimatedSpeed == IF vehicleType = "truck" THEN 50 ELSE 70
        duration == (distance * 60) \div estimatedSpeed
    IN Segment(from, to, distance, IF duration > 0 THEN duration ELSE 1, "null")

\* the catch block: straight line at 50 km/h (truck) or 70 km/h
FallbackSegment(from, to, vehicleType) ==
    LET distance == calculateDistance(from.coordinates, to.coordinates)
        estimatedSpeed == IF vehicleType = "truck" THEN 50 ELSE 70
    IN Segment(from, to, distance, (distance * 60) \div estimatedSpeed, "null")

\* a heavy-vehicle tier tried for every vehicle, the variant C20 is tested
\* against
UsesOrsAnyVehicle(vehicleType, key) == key

UsesOrs(vehicleType, key) == vehicleType = "truck" /\ key

\* a resolver without the straight-line tier: the failure of the general
\* provider is thrown to the caller.  The variant C1 is tested against.
calculateSegmentNoFallback(cache, order, key, from, to, vehicleType, ors, osrm) ==
    LET cacheKey == generateSegmentKey(from, to, vehicleType)
        tryOrs == UsesOrs(vehicleType, key)
        segment == IF tryOrs /\ ors.status = "ok" THEN OrsSegment(from, to, ors)
                   ELSE OsrmSegment(from, to, vehicleType, osrm)
        stored == cacheSegment(cache, order, cacheKey, segment)
    IN IF from.coordinates = NoCoordinates \/ to.coordinates = NoCoordinates
       THEN [threw |-> TRUE, segment |-> Null, cache |-> cache,
             order |-> order, asked |-> <<>>]
       ELSE IF cacheKey \in DOMAIN cache
       THEN [threw |-> FALSE, segment |-> Some(cache[cacheKey]),
             cache |-> cache, order |-> order, asked |-> <<>>]
       ELSE IF ~(tryOrs /\ ors.status = "ok") /\ osrm.status # "ok"
       THEN [threw |-> TRUE, segment |-> Null, cache |-> cache,
             order |-> order,
             asked |-> IF tryOrs THEN <<"ors", "osrm">> ELSE <<"osrm">>]
       ELSE [threw |-> FALSE, segment |-> Some(segment),
             cache |-> stored.cache, order |-> stored.order,
             asked |-> IF tryOrs /\ ors.status = "ok" THEN <<"ors">>
                       ELSE IF tryOrs THEN <<"ors", "osrm">>
                       ELSE <<"osrm">>]

\* a resolver that does not store the straight-line segment, the variant
\* C22 is tested against
calculateSegmentFallbackUncached(cache, order, key, from, to, vehicleType, ors, osrm) ==
    LET cacheKey == generateSegmentKey(from, to, vehicleType)
        tryOrs == UsesOrs(vehicleType, key)
        fallback == ~(tryOrs /\ ors.status = "ok") /\ osrm.status # "ok"
        segment == IF tryOrs /\ ors.status = "ok" THEN OrsSegment(from, to, ors)
                   ELSE IF osrm.status = "ok"
                        THEN OsrmSegment(from, to, vehicleType, osrm)
                        ELSE FallbackSegment(from, to, vehicleType)
        stored == cacheSegment(cache, order, cacheKey, segment)
    IN IF from.coordinates = NoCoordinates \/ to.coordinates = NoCoordinates
       THEN [threw |-> TRUE, segment |-> Null, cache |-> cache,
             order |-> order, asked |-> <<>>]
       ELSE IF cacheKey \in DOMAIN cache
       THEN [threw |-> FALSE, segment |-> Some(cache[cacheKey]),
             cache |-> cache, order |-> order, asked |-> <<>>]
       ELSE [threw |-> FALSE, segment |-> Some(segment),
             cache |-> IF fallback THEN cache ELSE stored.cache,
             order |-> IF fallback THEN order ELSE stored.order,
             asked |-> IF tryOrs /\ ors.status = "ok" THEN <<"ors">>
                       ELSE IF tryOrs THEN <<"ors", "osrm">>
                       ELSE <<"osrm">>]

\* calculateSegment(from, to, vehicleType) with the answers the providers
\* give when asked.  The result: threw (missing coordinates), the segment,
\* the Segment Cache after the call, and the providers asked, in order.
calculateSegment(cache, order, key, from, to, vehicleType, ors, osrm) ==
    LET cacheKey == generateSegmentKey(from, to, vehicleType)
        tryOrs == UsesOrs(vehicleType, key)
        segment == IF tryOrs /\ ors.status = "ok" THEN OrsSegment(from, to, ors)
                   ELSE IF osrm.status = "ok"
                        THEN OsrmSegment(from, to, vehicleType, osrm)
                        ELSE FallbackSegment(from, to, vehicleType)
        stored == cacheSegment(cache, order, cacheKey, segment)
    IN IF from.coordinates = NoCoordinates \/ to.coordinates = NoCoordinates
       THEN [threw |-> TRUE, segment |-> Null, cache |-> cache,
             order |-> order, asked |-> <<>>]
       ELSE IF cacheKey \in DOMAIN cache
       THEN [threw |-> FALSE, segment |-> Some(cache[cacheKey]),
             cache |-> cache, order |-> order, asked |-> <<>>]
       ELSE [threw |-> FALSE, segment |-> Some(segment),
             cache |-> stored.cache, order |-> stored.order,
             asked |-> IF tryOrs /\ ors.status = "ok" THEN <<"ors">>
                       ELSE IF tryOrs THEN <<"ors", "osrm">>
                       ELSE <<"osrm">>]

\* the answers the network's condition allows: a route from every call
\* while it is "up", a network error from every call while it is "down",
\* any answer otherwise
Possible(choices) ==
    IF network = "up" THEN {a \in choices : a.status = "ok"}
    ELSE IF network = "down" THEN {a \in choices : a.status = "error"}
    ELSE choices

\* the answers to draw for one resolution: none for a provider not asked
OrsChoices(cache, key, from, to, vehicleType) ==
    IF generateSegmentKey(from, to, vehicleType) \notin DOMAIN cache
       /\ UsesOrs(vehicleType, key)
    THEN Possible(OrsAnswers(from, to)) ELSE {NoAnswer}

OsrmChoices(cache, key, from, to, vehicleType, ors) ==
    IF generateSegmentKey(from, to, vehicleType) \notin DOMAIN cache
       /\ ~(UsesOrs(vehicleType, key) /\ ors.status = "ok")
    THEN Possible(OsrmAnswers(from, to)) ELSE {NoAnswer}

---------------------------------------------------------------------------
(* Location sequencer: the strategies that need no provider                *)
(*                                                                         *)
(* Scores are kept exact: a score of the source, in km, minutes or their   *)
(* 0.4/0.6 blend, is held multiplied by 1000 * ScoreScale, the time of an  *)
(* edge at 40, 55 or 65 km/h being distance * 3/2, 12/11 or 12/13.         *)

Infinity == 2000000000

\* 10 * lcm(2, 11, 13)
ScoreScale == 10 * 286

\* (distance / speed) * 60, times 286
Time286(distance, speed) ==
    IF speed = 40 THEN distance * 429
    ELSE IF speed = 55 THEN distance * 312
    ELSE distance * 264

\* the per-edge score of calculateCompleteLoopScore and of
\* findNearestNeighborLoop, by estimateSpeed
LoopEdgeScore(distance, method) ==
    IF method = "shortest_distance" THEN distance * ScoreScale
    ELSE IF method = "fastest_time"
         THEN 10 * Time286(distance, estimateSpeed(distance))
         ELSE 4 * 286 * distance + 6 * Time286(distance, estimateSpeed(distance))

\* the per-step score of nearestNeighborOptimization: 50 km/h times 1.3,
\* 1.1 or 0.8 for fastest_time, 55 km/h for balanced
NearestStepScore(distance, method) ==
    IF method = "shortest_distance" THEN distance * ScoreScale
    ELSE IF method = "fastest_time"
         THEN 10 * Time286(distance, IF distance > 10000 THEN 65
                                     ELSE IF distance > 5000 THEN 55 ELSE 40)
         ELSE 4 * 286 * distance + 6 * Time286(distance, 55)

\* the first index in 1..n of least F: a scan keeping the first strict minimum
ArgMinFirst(n, F(_)) ==
    CHOOSE i \in 1..n : /\ \A j \in 1..n : F(i) <= F(j)
                        /\ \A j \in 1..(i - 1) : F(j) > F(i)

Dist(a, b) == calculateDistance(a.coordinates, b.coordinates)

calculateCompleteLoopScore(locations, method) ==
    LET n == Len(locations)
        RECURSIVE Go(_)
        Go(i) == IF i > n THEN 0
                 ELSE LoopEdgeScore(Dist(locations[i],
                                         locations[IF i = n THEN 1 ELSE i + 1]),
                                    method) + Go(i + 1)
    IN Go(1)

RECURSIVE NearestLoopFrom(_, _, _, _, _)
\* findNearestNeighborLoop's while loop; the last placement adds the return
NearestLoopFrom(result, remaining, current, start, method) ==
    IF remaining = <<>> THEN result
    ELSE LET Score(i) ==
                 IF Len(remaining) = 1
                 THEN LoopEdgeScore(Dist(current, remaining[i]), method)
                      + LoopEdgeScore(Dist(remaining[i], start), method)
                 ELSE LoopEdgeScore(Dist(current, remaining[i]), method)
             best == ArgMinFirst(Len(remaining), Score)
         IN NearestLoopFrom(Append(result, remaining[best]),
                            RemoveAt(remaining, best), remaining[best],
                            start, method)

findNearestNeighborLoop(start, others, method) ==
    NearestLoopFrom(<<start>>, others, start, start, method)

RECURSIVE NearestByDistanceFrom(_, _, _, _)
\* the while loop shared by findFarthestFirstLoop and
\* optimizeFromSecondLocation: nearest by distance, the last with the return
NearestByDistanceFrom(result, remaining, current, start) ==
    IF remaining = <<>> THEN result
    ELSE LET Score(i) ==
                 IF Len(remaining) = 1
                 THEN Dist(current, remaining[i]) + Dist(remaining[i], start)
                 ELSE Dist(current, remaining[i])
             best == ArgMinFirst(Len(remaining), Score)
         IN NearestByDistanceFrom(Append(result, remaining[best]),
                                  RemoveAt(remaining, best), remaining[best],
                                  start)

FilterSeq(s, Keep(_)) ==
    LET idx == SelectIdx(s, Keep) IN [i \in 1..Len(idx) |-> s[idx[i]]]

findFarthestFirstLoop(start, others) ==
    LET n == Len(others)
        \* the first stop of greatest distance from start, if that is > 0
        far == IF \E i \in 1..n : Dist(start, others[i]) > 0
               THEN CHOOSE i \in 1..n :
                        /\ \A j \in 1..n :
                               Dist(start, others[j]) <= Dist(start, others[i])
                        /\ \A j \in 1..(i - 1) :
                               Dist(start, others[j]) < Dist(start, others[i])
               ELSE 0
    IN IF far = 0 THEN <<start>> \o others
       ELSE NearestByDistanceFrom(
                <<start, others[far]>>,
                FilterSeq(others, LAMBDA loc : loc.id # others[far].id),
                others[far], start)

optimizeFromSecondLocation(order) ==
    IF Len(order) <= 2 THEN order
    ELSE NearestByDistanceFrom(SubSeq(order, 1, 2), SubSeq(order, 3, Len(order)),
                               order[2], order[1])

Min(a, b) == IF a < b THEN a ELSE b

\* loopAwareOptimization's candidates in the order it scores them
LoopCandidates(locations, method) ==
    LET start == locations[1]
        others == Tail(locations)
    IN <<findNearestNeighborLoop(start, others, method),
         findFarthestFirstLoop(start, others)>>
       \o [i \in 1..Min(Len(others), 3) |->
              optimizeFromSecondLocation(
                  <<start, others[i]>> \o RemoveAt(others, i))]

RECURSIVE BestOf(_, _, _, _, _)
\* keep the first candidate whose score is strictly below the best so far
BestOf(cands, Score(_), i, bestOrder, bestScore) ==
    IF i > Len(cands) THEN bestOrder
    ELSE IF Score(cands[i]) < bestScore
         THEN BestOf(cands, Score, i + 1, cands[i], Score(cands[i]))
         ELSE BestOf(cands, Score, i + 1, bestOrder, bestScore)

\* a comparison that returns the nearest-first candidate unscored, the
\* variant C26 is tested against
loopAwareOptimizationNearestOnly(locations, method) ==
    findNearestNeighborLoop(locations[1], Tail(locations), method)

loopAwareOptimization(locations, method) ==
    BestOf(LoopCandidates(locations, method),
           LAMBDA order : calculateCompleteLoopScore(order, method),
           1, locations, Infinity)

\* a loop that places the stops in input order, the variant C27 is tested
\* against
NearestFromInputOrder(result, visited, locations, method) ==
    [hangs |-> FALSE, order |-> locations]

RECURSIVE NearestFrom(_, _, _, _)
\* the while loop of nearestNeighborOptimization: visited holds ids.  When
\* no unvisited id is left and visited.size < locations.length the loop
\* never ends: hangs.
NearestFrom(result, visited, locations, method) ==
    IF Cardinality(visited) >= Len(locations)
    THEN [hangs |-> FALSE, order |-> result]
    ELSE LET current == result[Len(result)]
             open == SelectIdx(locations, LAMBDA loc : loc.id \notin visited)
             Score(i) == NearestStepScore(Dist(current, locations[open[i]]),
                                          method)
             nearest == locations[open[ArgMinFirst(Len(open), Score)]]
         IN IF open = <<>> THEN [hangs |-> TRUE, order |-> result]
            ELSE NearestFrom(Append(result, nearest),
                             visited \cup {nearest.id}, locations, method)

nearestNeighborOptimization(locations, method, isLoop) ==
    IF Len(locations) <= 1 THEN [hangs |-> FALSE, order |-> locations]
    ELSE IF isLoop /\ Len(locations) >= 3
         THEN [hangs |-> FALSE,
               order |-> loopAwareOptimization(locations, method)]
         ELSE NearestFrom(<<locations[1]>>, {locations[1].id}, locations,
                          method)

RECURSIVE factorial(_)
factorial(n) == IF n <= 1 THEN 1 ELSE n * factorial(n - 1)

RECURSIVE permute(_)
\* permute(): every ordering, by the index taken first, then recursively
permute(arr) ==
    IF arr = <<>> THEN << <<>> >>
    ELSE LET RECURSIVE Go(_)
             Go(i) == IF i > Len(arr) THEN <<>>
                      ELSE LET rest == permute(RemoveAt(arr, i))
                           IN [k \in 1..Len(rest) |-> <<arr[i]>> \o rest[k]]
                              \o Go(i + 1)
         IN Go(1)

\* generatePermutations: enumeration stops once maxCount are produced
generatePermutations(arr, maxCount) ==
    LET all == permute(arr)
    IN SubSeq(all, 1, Min(Len(all), maxCount))

\* a bounded search that scores the nearest-neighbour result only, the
\* variant C13 is tested against
AdvancedCandidatesBaselineOnly(locations, nearest) == <<nearest>>

\* the orders advancedOptimization scores, the nearest-neighbour result first
AdvancedCandidates(locations, nearest) ==
    LET maxPermutations == Min(factorial(Len(locations)), 120)
    IN <<nearest>> \o
       (IF Len(locations) <= 6
        THEN generatePermutations(locations, Min(maxPermutations, 20))
        ELSE <<>>)

\* calculateOrderScore's edges: segmentCount pairs, the last wrapping
OrderEdges(locations, isLoop) ==
    LET n == Len(locations)
        segmentCount == IF isLoop THEN n ELSE n - 1
    IN [i \in 1..segmentCount |->
           <<locations[i], locations[IF isLoop /\ i = n THEN 1 ELSE i + 1]>>]

\* what calculateOrderScore adds for one resolved segment, times 10
SegmentScore(segment, method) ==
    IF method = "shortest_distance" THEN 10 * segment.distance
    ELSE IF method = "fastest_time" THEN 10 * segment.duration
    ELSE 4 * segment.distance + 6 * segment.duration

\* what calculateOrderScore's catch adds when calculateSegment throws: the
\* straight line at 50 or 65 km/h (fastest_time), 55 or 60 km/h (balanced)
CatchScore(from, to, method, vehicleType) ==
    LET distance == calculateDistance(from.coordinates, to.coordinates)
        truck == vehicleType = "truck"
    IN IF method = "shortest_distance" THEN 10 * distance
       ELSE IF method = "fastest_time"
            THEN (600 * distance) \div (IF truck THEN 50 ELSE 65)
            ELSE 4 * distance + (360 * distance) \div (IF truck THEN 55 ELSE 60)

OrderOrZero(loc) == IF loc.order = NoOrder THEN 0 ELSE loc.order

RECURSIVE InsertByOrder(_, _)
InsertByOrder(sorted, loc) ==
    \* loc goes after every element that does not compare greater
    IF sorted = <<>> THEN <<loc>>
    ELSE IF OrderOrZero(sorted[Len(sorted)]) <= OrderOrZero(loc)
         THEN Append(sorted, loc)
         ELSE Append(InsertByOrder(SubSeq(sorted, 1, Len(sorted) - 1), loc),
                     sorted[Len(sorted)])

RECURSIVE SortByOrder(_)
\* locations.sort((a, b) => (a.order || 0) - (b.order || 0)), stable
SortByOrder(locations) ==
    IF locations = <<>> THEN <<>>
    ELSE InsertByOrder(SortByOrder(SubSeq(locations, 1, Len(locations) - 1)),
                       locations[Len(locations)])

\* optimizeLocationOrder's merge loop over the positions i .. n-1, entered
\* with optimizedIndex and result: a position takes the first locked stop
\* of that order, or else the next optimized stop while there is one
MergeLocked(i, n, lockedLocations, optimized, optimizedIndex, result) ==
    LET orders == {lockedLocations[k].order : k \in 1..Len(lockedLocations)}
        \* optimizedIndex when the loop reaches position j, before the cap
        Taken(j) == optimizedIndex
                    + Cardinality({k \in i..(j - 1) : k \notin orders})
        positions == [k \in 1..(IF n > i THEN n - i ELSE 0) |-> i + k - 1]
        pushed == SelectIdx(positions,
                            LAMBDA j : j \in orders \/ Taken(j) < Len(optimized))
        At(j) == IF j \in orders
                 THEN lockedLocations[
                          SelectIdx(lockedLocations,
                                    LAMBDA loc : loc.order = j)[1]]
                 ELSE optimized[Taken(j) + 1]
    IN result \o [k \in 1..Len(pushed) |-> At(positions[pushed[k]])]

LockedOf(locations) == FilterSeq(locations, LAMBDA loc : loc.isLocked)
UnlockedOf(locations) == FilterSeq(locations, LAMBDA loc : ~loc.isLocked)

\* pairs with a return segment for every loop, the variant C9 is tested
\* against
RouteEdgesAlwaysReturn(locations, isLoop) ==
    LET n == Len(locations)
    IN [i \in 1..(IF n = 0 THEN 0 ELSE n - 1) |->
           <<locations[i], locations[i + 1]>>]
       \o (IF isLoop /\ n > 1 THEN << <<locations[n], locations[1]>> >>
           ELSE <<>>)

\* calculateRouteSegments' pairs: consecutive stops, then the return
RouteEdges(locations, isLoop) ==
    LET n == Len(locations)
    IN [i \in 1..(IF n = 0 THEN 0 ELSE n - 1) |->
           <<locations[i], locations[i + 1]>>]
       \o (IF isLoop /\ n > 2 THEN << <<locations[n], locations[1]>> >>
           ELSE <<>>)

---------------------------------------------------------------------------
(* The stops, requests and routes explored                                 *)

StopA == Loc("a", <<0, 0>>, FALSE, NoOrder)
StopB == Loc("b", <<0, 3000>>, FALSE, NoOrder)
StopC == Loc("c", <<4000, 0>>, FALSE, NoOrder)
\* a stop that was never geocoded
StopU == Loc("u", NoCoordinates, FALSE, NoOrder)
\* StopA moved by 0.00001 and by 0.0002 degree of latitude
StopANear == Loc("a", <<1, 0>>, FALSE, NoOrder)
StopAFar == Loc("a", <<20, 0>>, FALSE, NoOrder)

\* a fourth corner of the rectangle A, B, D, C
StopD == Loc("d", <<4000, 3000>>, FALSE, NoOrder)
\* a second stop at the coordinates of StopA
StopATwin == Loc("t", <<0, 0>>, FALSE, NoOrder)
\* a convex quadrilateral, walked M, W, N, E: W and E 0.005 degree to
\* either side of M, N 0.15 degree away
StopM == Loc("m", <<-50, 0>>, FALSE, NoOrder)
StopW == Loc("w", <<0, -500>>, FALSE, NoOrder)
StopN == Loc("n", <<15000, 0>>, FALSE, NoOrder)
StopE == Loc("e", <<0, 500>>, FALSE, NoOrder)

\* three stops on the meridian of StopA, 0.01 degree to one side, 0.02 to
\* the other, 0.04 to the first: the nearest stop first zigzags
StopP1 == Loc("p1", <<-1000, 0>>, FALSE, NoOrder)
StopP2 == Loc("p2", <<2000, 0>>, FALSE, NoOrder)
StopP3 == Loc("p3", <<-4000, 0>>, FALSE, NoOrder)

\* a stop 0.05 degree from StopA, beyond StopC: more than 5 km away, where
\* the fastest_time step score assumes a higher speed
StopQ == Loc("q", <<5000, 0>>, FALSE, NoOrder)

Locked(loc, order) == [loc EXCEPT !.isLocked = TRUE, !.order = order]

RunRequests ==
    { Request(<<StopA>>, "car", "balanced", FALSE),
      Request(<<StopA, StopU>>, "truck", "balanced", TRUE),
      Request(<<StopA, StopB>>, "car", "shortest_distance", FALSE),
      Request(<<StopA, StopB>>, "truck", "balanced", FALSE),
      Request(<<StopA, StopB>>, "truck", "fastest_time", TRUE),
      Request(<<StopA, StopB, StopC>>, "car", "balanced", FALSE),
      Request(<<StopA, StopB, StopC>>, "car", "shortest_distance", TRUE),
      Request(<<StopA, StopB, Locked(StopC, 0)>>, "truck", "balanced", TRUE),
      Request(<<StopA, StopB, Locked(StopC, 0)>>, "car", "fastest_time", FALSE),
      Request(<<Locked(StopA, 2), Locked(StopB, 0), Locked(StopC, 1)>>,
              "car", "balanced", FALSE),
      Request(<<Locked(StopA, 2), Locked(StopB, 0), Locked(StopC, 1)>>,
              "truck", "shortest_distance", TRUE),
      Request(<<StopA, Locked(StopB, 7), Locked(StopC, 7)>>,
              "car", "balanced", TRUE),
      Request(<<StopA, Locked(StopB, 7), Locked(StopC, 7)>>,
              "car", "balanced", FALSE),
      Request(<<StopA, Locked(StopB, 7), StopC>>, "truck", "balanced", TRUE) }

\* the requests of the runs that follow one another
RepeatRequests ==
    { Request(<<StopA>>, "car", "balanced", FALSE),
      Request(<<StopA, StopU>>, "truck", "balanced", TRUE),
      Request(<<StopA, StopB>>, "truck", "balanced", FALSE),
      Request(<<StopA, StopB, Locked(StopC, 0)>>, "truck", "balanced", TRUE),
      Request(<<Locked(StopA, 2), Locked(StopB, 0), Locked(StopC, 1)>>,
              "car", "balanced", FALSE) }

\* requests for the sequencer and the resolver under a settled network
SeqRequests ==
    { Request(<<Locked(StopA, 1), Locked(StopB, 0)>>,
              "car", "shortest_distance", FALSE),
      Request(<<Locked(StopA, 1), StopB>>, "truck", "balanced", TRUE),
      Request(<<Locked(StopA, 2), Locked(StopB, 0), Locked(StopC, 1)>>,
              "car", "balanced", TRUE),
      Request(<<StopM, StopW, StopN, Locked(StopE, 0)>>,
              "truck", "fastest_time", TRUE),
      Request(<<StopA, Locked(StopB, 2), StopC, StopD>>,
              "car", "balanced", FALSE),
      Request(<<StopA, StopATwin>>, "car", "fastest_time", FALSE),
      Request(<<StopA, StopATwin, StopB>>, "truck", "balanced", TRUE),
      Request(<<StopA, StopD, StopB>>, "car", "fastest_time", TRUE),
      Request(<<StopA, StopD, StopB, StopC>>, "truck", "balanced", TRUE),
      Request(<<StopM, StopW, StopN, StopE>>,
              "car", "shortest_distance", TRUE) }

\* a validation that checks the coordinates only, the variant C2 is tested
\* against
AcceptedLocated(request) ==
    \A i \in 1..Len(request.locations) :
        request.locations[i].coordinates # NoCoordinates

\* calculateRoute's validation passes
Accepted(request) ==
    /\ Len(request.locations) >= 2
    /\ \A i \in 1..Len(request.locations) :
           request.locations[i].coordinates # NoCoordinates

EmptyRequest == Request(<<>>, "car", "balanced", FALSE)

\* generateRouteId: `route_${Date.now()}_...` (the random suffix is left out)
generateRouteId(t) == <<"route", t>>

\* a Route whose totals are recomputed from the straight lines between its
\* stops, the variant C10 is tested against
BuildRouteRecomputed(id, request, optimizedLocations, segments) ==
    [id |-> id,
     locations |-> optimizedLocations,
     totalDistance |->
         SumSeq([i \in 1..Len(segments) |->
                    [distance |-> Dist(segments[i].from, segments[i].to)]],
                "distance"),
     totalDuration |-> SumSeq(segments, "duration"),
     vehicleType |-> request.vehicleType,
     isLoop |-> request.isLoop,
     segments |-> segments,
     optimizationMethod |-> request.optimizationMethod]

\* the Route calculateRoute builds from the final order and its segments
BuildRoute(id, request, optimizedLocations, segments) ==
    [id |-> id,
     locations |-> optimizedLocations,
     totalDistance |-> SumSeq(segments, "distance"),
     totalDuration |-> SumSeq(segments, "duration"),
     vehicleType |-> request.vehicleType,
     isLoop |-> request.isLoop,
     segments |-> segments,
     optimizationMethod |-> request.optimizationMethod]

\* routes a caller of the cache API may store (the tests' createMockRoute)
MockRoute(n) ==
    [id |-> <<"mock", n>>, locations |-> <<StopA, StopB>>,
     totalDistance |-> 10000 * n, totalDuration |-> 15000,
     vehicleType |-> "car", isLoop |-> FALSE, segments |-> <<>>,
     optimizationMethod |-> "balanced"]

MockRoutes == {MockRoute(1), MockRoute(2)}

Response(status, route, algorithm) ==
    [status |-> status, route |-> route, algorithm |-> algorithm]

\* a call, its arguments and the time it was made at
Call(op, request, route) ==
    [op |-> op, request |-> request, route |-> route, at |-> now]

IdleRun ==
    [pc |-> "idle", request |-> EmptyRequest, cands |-> <<>>, ci |-> 0,
     ei |-> 0, totalScore |-> 0, bestScore |-> 0, bestOrder |-> <<>>,
     optimized |-> <<>>, segments |-> <<>>]

\* no second calculateRoute is in progress
IdleOther == [pc |-> "idle"]

---------------------------------------------------------------------------
(* calculateRoute, one step per provider round trip                        *)

\* the catch of calculateRoute rethrows: the call fails
Failure == Some(Response("error", Null, "none"))

\* the part of calculateRoute after calculateRouteSegments: build the
\* Route, setCachedRoute(request, route), return it
Finish(request, optimizedLocations, segments, cache) ==
    LET route == BuildRoute(generateRouteId(now), request, optimizedLocations,
                            segments)
    IN /\ run' = IdleRun
       /\ routeCache' = setCachedRoute(cache, request, route, now)
       /\ ret' = Some(Response("ok", Some(route), "openstreetmap-free"))

\* calculateRouteSegments on the final order: resolve the first pair, or
\* finish when there is none
StartSegments(request, optimizedLocations, cache) ==
    IF RouteEdges(optimizedLocations, request.isLoop) = <<>>
    THEN Finish(request, optimizedLocations, <<>>, cache)
    ELSE /\ run' = [IdleRun EXCEPT !.pc = "segments", !.request = request,
                                   !.optimized = optimizedLocations]
         /\ routeCache' = cache
         /\ ret' = Null

\* the end of optimizeLocationOrder: merge the locked stops back in
Merged(request, optimized) ==
    MergeLocked(0, Len(request.locations), LockedOf(request.locations),
                optimized, 0, <<>>)

\* optimizeLocationOrder up to its first provider call
StartOptimize(request, cache) ==
    LET locations == request.locations
        unlocked == UnlockedOf(locations)
        nearest == nearestNeighborOptimization(unlocked,
                       request.optimizationMethod, request.isLoop)
    IN IF Len(locations) <= 2
       THEN StartSegments(request, locations, cache)
       ELSE IF unlocked = <<>>
       THEN \* locations.sort(...) reorders request.locations itself
            StartSegments([request EXCEPT !.locations = SortByOrder(locations)],
                          SortByOrder(locations), cache)
       ELSE IF Len(unlocked) <= 1
       THEN StartSegments(request, Merged(request, unlocked), cache)
       ELSE IF nearest.hangs
       THEN /\ run' = [IdleRun EXCEPT !.pc = "hung", !.request = request]
            /\ routeCache' = cache
            /\ ret' = Null
       ELSE IF Len(unlocked) > 8
       THEN StartSegments(request, Merged(request, nearest.order), cache)
       ELSE /\ run' = [IdleRun EXCEPT
                          !.pc = "score", !.request = request,
                          !.cands = AdvancedCandidates(unlocked, nearest.order),
                          !.ci = 1, !.ei = 1, !.totalScore = 0,
                          !.bestScore = Infinity, !.bestOrder = unlocked]
            /\ routeCache' = cache
            /\ ret' = Null

\* calculateRoute(request) up to its first provider call
CalculateRoute(request, maxRuns) ==
    LET cleaned == cleanRouteCache(routeCache, now)
        cachedRoute == LookupRoute(cleaned, request, now)
        cleared == clearSegmentCache(segmentCache, segmentCacheOrder)
    IN /\ run.pc = "idle"
       /\ runs < maxRuns
       /\ runs' = runs + 1
       /\ call' = Call("calculateRoute", request, Null)
       /\ asked' = <<>>
       /\ answers' = <<NoAnswer, NoAnswer>>
       /\ UNCHANGED <<now, ticks, apiKey, network, preferences, fetches,
                      other>>
       /\ IF cachedRoute # Null
          THEN /\ ret' = Some(Response("ok", cachedRoute, "cache-hit"))
               /\ routeCache' = cleaned
               /\ run' = IdleRun
               /\ UNCHANGED <<segmentCache, segmentCacheOrder>>
          ELSE /\ segmentCache' = cleared.cache
               /\ segmentCacheOrder' = cleared.order
               /\ IF ~Accepted(request)
                  THEN /\ ret' = Failure
                       /\ routeCache' = cleaned
                       /\ run' = IdleRun
                  ELSE StartOptimize(request, cleaned)

\* a comparison that also replaces the best order on an equal score, the
\* variant C25 is tested against
BetterOrEqual(score, bestScore) == score <= bestScore

\* advancedOptimization's test of a scored order against the best so far
Better(score, bestScore) == score < bestScore

\* one calculateSegment of calculateOrderScore, and what follows it up to
\* the next provider call
ScoreStep ==
    /\ run.pc = "score"
    /\ LET request == run.request
           order == run.cands[run.ci]
           edges == OrderEdges(order, request.isLoop)
           from == edges[run.ei][1]
           to == edges[run.ei][2]
       IN \E ors \in OrsChoices(segmentCache, apiKey, from, to,
                                request.vehicleType) :
          \E osrm \in OsrmChoices(segmentCache, apiKey, from, to,
                                  request.vehicleType, ors) :
            LET res == calculateSegment(segmentCache, segmentCacheOrder, apiKey,
                           from, to, request.vehicleType, ors, osrm)
                total == run.totalScore
                         + (IF res.threw
                            THEN CatchScore(from, to, request.optimizationMethod,
                                            request.vehicleType)
                            ELSE SegmentScore(res.segment[1],
                                              request.optimizationMethod))
                better == Better(total, run.bestScore)
                bestOrder == IF better THEN order ELSE run.bestOrder
                bestScore == IF better THEN total ELSE run.bestScore
            IN /\ segmentCache' = res.cache
               /\ segmentCacheOrder' = res.order
               /\ asked' = res.asked
               /\ answers' = <<ors, osrm>>
               /\ IF run.ei < Len(edges)
                  THEN /\ run' = [run EXCEPT !.ei = run.ei + 1,
                                             !.totalScore = total]
                       /\ UNCHANGED <<routeCache, ret>>
                  ELSE IF run.ci < Len(run.cands)
                  THEN /\ run' = [run EXCEPT !.ci = run.ci + 1, !.ei = 1,
                                             !.totalScore = 0,
                                             !.bestOrder = bestOrder,
                                             !.bestScore = bestScore]
                       /\ UNCHANGED <<routeCache, ret>>
                  ELSE StartSegments(request, Merged(request, bestOrder),
                                     routeCache)
    /\ UNCHANGED <<now, ticks, apiKey, call, runs, network, preferences,
                   fetches, other>>

\* one calculateSegment of calculateRouteSegments; after the last, the
\* rest of calculateRoute
SegmentStep ==
    /\ run.pc = "segments"
    /\ LET request == run.request
           edges == RouteEdges(run.optimized, request.isLoop)
           i == Len(run.segments) + 1
           from == edges[i][1]
           to == edges[i][2]
       IN \E ors \in OrsChoices(segmentCache, apiKey, from, to,
                                request.vehicleType) :
          \E osrm \in OsrmChoices(segmentCache, apiKey, from, to,
                                  request.vehicleType, ors) :
            LET res == calculateSegment(segmentCache, segmentCacheOrder, apiKey,
                           from, to, request.vehicleType, ors, osrm)
                segments == Append(run.segments, res.segment[1])
            IN /\ segmentCache' = res.cache
               /\ segmentCacheOrder' = res.order
               /\ asked' = res.asked
               /\ answers' = <<ors, osrm>>
               /\ IF res.threw
                  THEN \* the throw reaches calculateRoute's catch
                       /\ run' = IdleRun
                       /\ ret' = Failure
                       /\ UNCHANGED routeCache
                  ELSE IF i < Len(edges)
                  THEN /\ run' = [run EXCEPT !.segments = segments]
                       /\ UNCHANGED <<routeCache, ret>>
                  ELSE Finish(request, run.optimized, segments, routeCache)
    /\ UNCHANGED <<now, ticks, apiKey, call, runs, network, preferences,
                   fetches, other>>

\* the pair the run in progress resolves next
CurrentEdge ==
    IF run.pc = "score"
    THEN OrderEdges(run.cands[run.ci], run.request.isLoop)[run.ei]
    ELSE RouteEdges(run.optimized, run.request.isLoop)[Len(run.segments) + 1]

CurrentKey ==
    generateSegmentKey(CurrentEdge[1], CurrentEdge[2], run.request.vehicleType)

---------------------------------------------------------------------------
(* The provider calls of a run, one step per await                         *)

\* the call of calculateSegment the run is at
Position == <<runs, run.pc, run.ci, run.ei, Len(run.segments)>>

\* the provider calls made for the resolution the run is at
Sent == SelectSeq(fetches, LAMBDA f : f.at = Position)

\* a run that goes on while a provider call is unanswered, the variant C28
\* is tested against
AwaitingNever == FALSE

\* the run is suspended at an await: a provider call has no answer yet
Awaiting == \E i \in DOMAIN fetches : fetches[i].answer = NoAnswer

\* the provider calculateSegment calls next for the pair it is resolving:
\* none on a cache hit, the heavy-vehicle provider first for a truck with a
\* key, the general provider first otherwise or after the former failed
NextFetch ==
    IF CurrentKey \in DOMAIN segmentCache THEN "none"
    ELSE IF Sent = <<>>
         THEN IF UsesOrs(run.request.vehicleType, apiKey) THEN "ors" ELSE "osrm"
         ELSE IF Len(Sent) = 1 /\ Sent[1].provider = "ors"
                 /\ Sent[1].answer.status # "ok"
              THEN "osrm"
              ELSE "none"

\* await fetch(url): the call leaves
Fetch ==
    /\ run.pc \in {"score", "segments"}
    /\ ~Awaiting
    /\ NextFetch # "none"
    /\ fetches' = Append(fetches, [at |-> Position, provider |-> NextFetch,
                                   key |-> CurrentKey, answer |-> NoAnswer])
    /\ UNCHANGED <<routeCache, now, call, ret, segmentCache, segmentCacheOrder,
                   apiKey, run, runs, ticks, asked, answers, network,
                   preferences, other>>

\* a provider call is answered, or fails
Respond ==
    /\ \E i \in DOMAIN fetches :
           /\ fetches[i].answer = NoAnswer
           /\ \E answer \in Possible(IF fetches[i].provider = "ors"
                                      THEN OrsAnswers(CurrentEdge[1],
                                                      CurrentEdge[2])
                                      ELSE OsrmAnswers(CurrentEdge[1],
                                                       CurrentEdge[2])) :
                  fetches' = [fetches EXCEPT ![i].answer = answer]
    /\ UNCHANGED <<routeCache, now, call, ret, segmentCache, segmentCacheOrder,
                   apiKey, run, runs, ticks, asked, answers, network,
                   preferences, other>>

\* what a provider answered for the pair being resolved
Received(provider) ==
    IF \E i \in DOMAIN Sent : Sent[i].provider = provider
    THEN Sent[CHOOSE i \in DOMAIN Sent : Sent[i].provider = provider].answer
    ELSE NoAnswer

\* calculateSegment has what it needs to return
Resolved ==
    /\ run.pc \in {"score", "segments"}
    /\ ~Awaiting
    /\ NextFetch = "none"

\* calculateSegment returns to calculateOrderScore
ResolveScore ==
    /\ Resolved
    /\ ScoreStep
    /\ answers' = <<Received("ors"), Received("osrm")>>

\* calculateSegment returns to calculateRouteSegments
ResolveSegment ==
    /\ Resolved
    /\ SegmentStep
    /\ answers' = <<Received("ors"), Received("osrm")>>

\* the run in progress is at the last resolution before it stores its route
AtLastResolution ==
    /\ run.pc = "segments"
    /\ Len(run.segments) + 1 = Len(RouteEdges(run.optimized, run.request.isLoop))

\* Time passes.  calculateRoute reads the clock when it starts and when it
\* stores its route, and nothing else reads it during a run: the time that
\* passes during a run is taken before the run's last resolution.
TickDeltas == {ROUTE_CACHE_DURATION - 1, ROUTE_CACHE_DURATION,
               ROUTE_CACHE_DURATION + 1}
RunTickDeltas == {1, ROUTE_CACHE_DURATION + 1}

Tick(deltas) ==
    /\ run.pc = "idle" \/ AtLastResolution
    /\ ticks < MaxTicks
    /\ \E d \in deltas : now' = now + d
    /\ ticks' = ticks + 1
    /\ UNCHANGED <<routeCache, call, ret, segmentCache, segmentCacheOrder,
                   apiKey, run, runs, asked, answers, network, preferences,
                   fetches, other>>

\* Date.now() when the model starts, in milliseconds
StartTime == 1000

Init ==
    /\ routeCache = <<>>
    /\ now = StartTime
    /\ call = Call("none", EmptyRequest, Null)
    /\ ret = Null
    /\ segmentCache = EmptyMap
    /\ segmentCacheOrder = <<>>
    /\ apiKey \in BOOLEAN
    /\ run = IdleRun
    /\ runs = 0
    /\ ticks = 0
    /\ asked = <<>>
    /\ answers = <<NoAnswer, NoAnswer>>
    /\ network = "any"
    /\ preferences = Null
    /\ fetches = <<>>
    /\ other = IdleOther

\* one calculateRoute call at a time, over the wide set of requests
Next ==
    \/ \E request \in RunRequests : CalculateRoute(request, MaxRuns)
    \/ ScoreStep
    \/ SegmentStep

Spec == Init /\ [][Next]_vars

\* calculateRoute calls one after another while time passes
RepeatNext ==
    \/ \E request \in RepeatRequests : CalculateRoute(request, MaxRepeatRuns)
    \/ ScoreStep
    \/ SegmentStep
    \/ Tick(RunTickDeltas)

RepeatSpec == Init /\ [][RepeatNext]_vars

\* one calculateRoute call while every provider call succeeds, or while
\* every provider call fails
SeqInit ==
    /\ routeCache = <<>>
    /\ now = StartTime
    /\ call = Call("none", EmptyRequest, Null)
    /\ ret = Null
    /\ segmentCache = EmptyMap
    /\ segmentCacheOrder = <<>>
    /\ apiKey \in BOOLEAN
    /\ run = IdleRun
    /\ runs = 0
    /\ ticks = 0
    /\ asked = <<>>
    /\ answers = <<NoAnswer, NoAnswer>>
    /\ network \in {"up", "down"}
    /\ preferences = Null
    /\ fetches = <<>>
    /\ other = IdleOther

SeqNext ==
    \/ \E request \in SeqRequests : CalculateRoute(request, MaxSeqRuns)
    \/ ScoreStep
    \/ SegmentStep

SeqSpec == SeqInit /\ [][SeqNext]_vars

\* a route longer than the Segment Cache: LongLocked stops locked at the
\* positions 0, 1, ..., 0.001 degree apart, then three stops to order
LongStop(i) == Locked(Loc("s" \o ToString(i), <<100 * i, 0>>, FALSE, NoOrder), i)

LongLocations ==
    [i \in 1..LongLocked |-> LongStop(i - 1)] \o <<StopA, StopB, StopC>>

\* with it, two small loops, and requests of 2, 7 and 9 stops to order
LongRequests ==
    { Request(LongLocations, "car", "balanced", FALSE),
      Request(<<StopA, StopD, StopB, StopC>>, "truck", "balanced", TRUE),
      Request(<<StopA, StopP1, StopP2, StopP3>>, "car", "shortest_distance",
              TRUE),
      Request(<<StopA, StopB>>, "car", "shortest_distance", FALSE),
      Request(<<StopA, StopC, StopQ>>, "car", "fastest_time", FALSE),
      Request(<<StopA, StopB, StopC, StopD, StopM, StopW, StopE>>,
              "car", "shortest_distance", FALSE),
      Request(<<StopA, StopB, StopC, StopD, StopM, StopW, StopN, StopE,
                StopATwin>>, "truck", "fastest_time", TRUE) }

LongNext ==
    \/ \E request \in LongRequests : CalculateRoute(request, MaxLongRuns)
    \/ ScoreStep
    \/ SegmentStep

LongSpec == SeqInit /\ [][LongNext]_vars

\* runs followed call by call: a truck loop, an open route, a 2-stop route
AwaitRequests ==
    { Request(<<StopA, StopB, StopC>>, "truck", "balanced", TRUE),
      Request(<<StopA, StopC, StopQ>>, "car", "fastest_time", FALSE),
      Request(<<StopA, StopB>>, "truck", "shortest_distance", FALSE) }

AwaitNext ==
    \/ \E request \in AwaitRequests : CalculateRoute(request, MaxAwaitRuns)
    \/ Fetch
    \/ Respond
    \/ ResolveScore
    \/ ResolveSegment

AwaitSpec == SeqInit /\ [][AwaitNext]_vars

\* a second calculateRoute in progress on the same instance
\* (freeRoutingService).  Its request has two stops: StopAFar, which has the
\* id of StopA and other coordinates, and StopB.
OtherRequest == Request(<<StopAFar, StopB>>, "car", "shortest_distance", FALSE)

\* the other calculateRoute up to its first provider call: it misses the
\* Route Cache, clears the Segment Cache, and has no order to search
OtherRunStarts ==
    LET cleaned == cleanRouteCache(routeCache, now)
        cleared == clearSegmentCache(segmentCache, segmentCacheOrder)
    IN /\ other.pc = "idle"
       /\ LookupRoute(cleaned, OtherRequest, now) = Null
       /\ routeCache' = cleaned
       /\ segmentCache' = cleared.cache
       /\ segmentCacheOrder' = cleared.order
       /\ other' = [pc |-> "segments"]
       /\ UNCHANGED <<now, call, ret, apiKey, run, runs, ticks, asked,
                      answers, network, preferences, fetches>>

\* the other run resolves its pair, stores its route and returns
OtherRunResolves ==
    LET from == OtherRequest.locations[1]
        to == OtherRequest.locations[2]
    IN /\ other.pc = "segments"
       /\ \E ors \in OrsChoices(segmentCache, apiKey, from, to, "car") :
          \E osrm \in OsrmChoices(segmentCache, apiKey, from, to, "car", ors) :
              LET res == calculateSegment(segmentCache, segmentCacheOrder,
                                          apiKey, from, to, "car", ors, osrm)
                  route == BuildRoute(generateRouteId(now), OtherRequest,
                                      OtherRequest.locations, res.segment)
              IN /\ segmentCache' = res.cache
                 /\ segmentCacheOrder' = res.order
                 /\ routeCache' = setCachedRoute(routeCache, OtherRequest,
                                                 route, now)
       /\ other' = [pc |-> "done"]
       /\ UNCHANGED <<now, call, ret, apiKey, run, runs, ticks, asked,
                      answers, network, preferences, fetches>>

\* the requests of the run followed while the other run goes on
SharedRequests ==
    { Request(<<StopA, StopB>>, "car", "shortest_distance", FALSE),
      Request(<<StopA, StopB, StopC>>, "car", "balanced", TRUE) }

SharedNext ==
    \/ \E request \in SharedRequests : CalculateRoute(request, MaxSharedRuns)
    \/ ScoreStep
    \/ SegmentStep
    \/ OtherRunStarts
    \/ OtherRunResolves

SharedSpec == SeqInit /\ [][SharedNext]_vars

\* requests that differ only in which stops are locked and where
LockRequests ==
    { Request(<<StopA, StopB, StopC>>, "car", "shortest_distance", TRUE),
      Request(<<StopA, StopB, Locked(StopC, 0)>>, "car", "shortest_distance",
              TRUE),
      Request(<<StopA, Locked(StopB, 0), StopC>>, "car", "shortest_distance",
              TRUE) }

LockNext ==
    \/ \E request \in LockRequests : CalculateRoute(request, MaxLockRuns)
    \/ ScoreStep
    \/ SegmentStep

LockSpec == SeqInit /\ [][LockNext]_vars

\* runs followed to their return: routes and loops with two stops of the
\* same id, and without
TermRequests ==
    { Request(<<StopA, StopAFar, StopB>>, "car", "shortest_distance", FALSE),
      Request(<<StopA, StopAFar, StopB, StopC>>, "truck", "balanced", TRUE),
      Request(<<StopA, StopB, StopC, Locked(StopAFar, 3)>>,
              "car", "shortest_distance", FALSE),
      Request(<<StopA, StopB, StopC>>, "truck", "fastest_time", TRUE),
      Request(<<StopA, StopB, StopC, StopD>>, "car", "balanced", FALSE) }

TermNext ==
    \/ \E request \in TermRequests : CalculateRoute(request, MaxTermRuns)
    \/ ScoreStep
    \/ SegmentStep

\* every provider call is answered or fails in the end: a resolution that
\* is due takes place
TermSpec ==
    /\ SeqInit
    /\ [][TermNext]_vars
    /\ WF_vars(ScoreStep)
    /\ WF_vars(SegmentStep)

---------------------------------------------------------------------------
(* The cache API called directly, as the tests of cacheManager.ts do       *)

MockRequest == Request(<<StopA, StopB>>, "car", "balanced", FALSE)

\* createMockRequest with one field changed
GetRequests ==
    { MockRequest,
      [MockRequest EXCEPT !.vehicleType = "truck"],
      [MockRequest EXCEPT !.optimizationMethod = "shortest_distance"],
      [MockRequest EXCEPT !.isLoop = TRUE],
      [MockRequest EXCEPT !.locations = <<StopANear, StopB>>],
      [MockRequest EXCEPT !.locations = <<StopAFar, StopB>>] }

\* the requests that filled the cache before: stops 0.001 degree apart
Filler(i) == Request(<<Loc("f", <<100 * i, 0>>, FALSE, NoOrder), StopB>>,
                     "car", "balanced", FALSE)

\* two of them were stored in each millisecond
FillerTime(i) == (i + 1) \div 2

Prefill(n) ==
    [i \in 1..n |-> [key |-> generateRouteKey(Filler(i)),
                     route |-> MockRoute(1), timestamp |-> FillerTime(i)]]

SetRequests ==
    { MockRequest,
      [MockRequest EXCEPT !.vehicleType = "truck"],
      Filler(1) }

CacheFrame == UNCHANGED <<segmentCache, segmentCacheOrder, apiKey, run, runs,
                          asked, answers, network, fetches, other>>

SetCachedRoute(request, route) ==
    /\ routeCache' = setCachedRoute(routeCache, request, route, now)
    /\ call' = Call("setCachedRoute", request, Some(route))
    /\ ret' = Null
    /\ UNCHANGED <<now, ticks, preferences>>
    /\ CacheFrame

GetCachedRoute(request) ==
    /\ routeCache' = cleanRouteCache(routeCache, now)
    /\ call' = Call("getCachedRoute", request, Null)
    /\ ret' = LookupRoute(cleanRouteCache(routeCache, now), request, now)
    /\ UNCHANGED <<now, ticks, preferences>>
    /\ CacheFrame

CleanRouteCache ==
    /\ routeCache' = cleanRouteCache(routeCache, now)
    /\ call' = Call("cleanRouteCache", EmptyRequest, Null)
    /\ ret' = Null
    /\ UNCHANGED <<now, ticks, preferences>>
    /\ CacheFrame

\* the preferences the test saves
MockPreferences ==
    [vehicleType |-> "truck", optimizationMethod |-> "fastest_time",
     isLoop |-> TRUE, autoSaveLocations |-> FALSE]

\* saveUserPreferences: the item is set, unless setItem throws (the catch
\* logs and stores nothing)
SaveUserPreferences(prefs) ==
    /\ preferences' \in {Some(prefs), preferences}
    /\ call' = Call("saveUserPreferences", EmptyRequest, Null)
    /\ ret' = Null
    /\ UNCHANGED <<routeCache, now, ticks>>
    /\ CacheFrame

\* getUserPreferences: the stored item parsed, or null
getUserPreferences == preferences

\* getCacheStats().routeCount: routeCache.size
routeCount == Len(routeCache)

\* a clearAllCache that clears the routes only, the variant C19 is tested
\* against
ClearRoutesOnly ==
    /\ routeCache' = <<>>
    /\ call' = Call("clearAllCache", EmptyRequest, Null)
    /\ ret' = Null
    /\ UNCHANGED <<now, ticks, preferences>>
    /\ CacheFrame

ClearAllCache ==
    /\ routeCache' = <<>>
    /\ preferences' = Null
    /\ call' = Call("clearAllCache", EmptyRequest, Null)
    /\ ret' = Null
    /\ UNCHANGED <<now, ticks>>
    /\ CacheFrame

CacheInit ==
    /\ routeCache \in {Prefill(0), Prefill(CacheFill)}
    /\ now = StartTime
    /\ call = Call("none", EmptyRequest, Null)
    /\ ret = Null
    /\ segmentCache = EmptyMap
    /\ segmentCacheOrder = <<>>
    /\ apiKey = FALSE
    /\ run = IdleRun
    /\ runs = 0
    /\ ticks = 0
    /\ asked = <<>>
    /\ answers = <<NoAnswer, NoAnswer>>
    /\ network = "any"
    /\ preferences = Null
    /\ fetches = <<>>
    /\ other = IdleOther

CacheNext ==
    \/ \E request \in SetRequests, route \in MockRoutes :
           SetCachedRoute(request, route)
    \/ \E request \in GetRequests \cup {Filler(1), Filler(2)} :
           GetCachedRoute(request)
    \/ CleanRouteCache
    \/ ClearAllCache
    \/ Tick(TickDeltas)

CacheSpec == CacheInit /\ [][CacheNext]_vars

\* the cache manager with the preferences: routes stored and fetched,
\* preferences saved, everything cleared
PrefNext ==
    \/ \E request \in SetRequests, route \in MockRoutes :
           SetCachedRoute(request, route)
    \/ \E request \in GetRequests \cup {Filler(1), Filler(2)} :
           GetCachedRoute(request)
    \/ SaveUserPreferences(MockPreferences)
    \/ ClearAllCache

PrefSpec == CacheInit /\ [][PrefNext]_vars

---------------------------------------------------------------------------
(* The Segment Cache on its own: the insertions calculateSegment makes     *)
(* after a miss, its reads, and the clear at the start of a run            *)

\* the stops of a long route, 0.001 degree apart, and its edges
SegStop(i) == Loc("s" \o ToString(i), <<100 * i, 0>>, FALSE, NoOrder)

SegFillerKey(i) == generateSegmentKey(SegStop(i), SegStop(i + 1), "car")

\* the cache after the first n edges of the long route were resolved,
\* n below the capacity: cacheSegment has added each key and evicted none
SegPrefill(cache, order, n) ==
    [cache |-> [key \in (DOMAIN cache) \cup {SegFillerKey(i) : i \in 1..n} |->
                   IF key \in DOMAIN cache THEN cache[key]
                   ELSE LET i == CHOOSE i \in 1..n : SegFillerKey(i) = key
                        IN FallbackSegment(SegStop(i), SegStop(i + 1), "car")],
     order |-> order \o [i \in 1..n |-> SegFillerKey(i)]]

\* the edges resolved while the cache is watched: the runs are for cars
SegEdges ==
    { <<StopA, StopB, "car">>, <<StopB, StopC, "car">>,
      <<StopC, StopA, "car">>, <<StopB, StopA, "car">> }

\* the cache of a first run, and of a run that follows a run of one edge
SegStarts ==
    {[cache |-> EmptyMap, order |-> <<>>]}
    \cup { LET first == cacheSegment(EmptyMap, <<>>,
                            generateSegmentKey(e[1], e[2], e[3]),
                            FallbackSegment(e[1], e[2], e[3]))
           IN clearSegmentCache(first.cache, first.order) : e \in SegEdges }

SegFrame == UNCHANGED <<routeCache, now, apiKey, run, ticks, asked, answers,
                        network, preferences, fetches, other>>

\* calculateSegment's store after a miss: cacheSegment(cacheKey, segment)
CacheSegment(from, to, vehicleType) ==
    LET cacheKey == generateSegmentKey(from, to, vehicleType)
        stored == cacheSegment(segmentCache, segmentCacheOrder, cacheKey,
                               FallbackSegment(from, to, vehicleType))
    IN /\ cacheKey \notin DOMAIN segmentCache
       /\ segmentCache' = stored.cache
       /\ segmentCacheOrder' = stored.order
       /\ call' = Call("cacheSegment", EmptyRequest, Null)
       /\ ret' = Null
       /\ UNCHANGED runs
       /\ SegFrame

\* calculateSegment's lookup: this.segmentCache.get(cacheKey)
GetSegment(from, to, vehicleType) ==
    LET cacheKey == generateSegmentKey(from, to, vehicleType)
    IN /\ ret' = IF cacheKey \in DOMAIN segmentCache
                 THEN Some(segmentCache[cacheKey]) ELSE Null
       /\ call' = Call("getSegment", EmptyRequest, Null)
       /\ UNCHANGED <<segmentCache, segmentCacheOrder, runs>>
       /\ SegFrame

\* the clear at the start of a run that missed the Route Cache
ClearSegmentCache ==
    LET cleared == clearSegmentCache(segmentCache, segmentCacheOrder)
    IN /\ runs < MaxSegRuns
       /\ runs' = runs + 1
       /\ segmentCache' = cleared.cache
       /\ segmentCacheOrder' = cleared.order
       /\ call' = Call("clearSegmentCache", EmptyRequest, Null)
       /\ ret' = Null
       /\ SegFrame

SegInit ==
    /\ \E start \in SegStarts, n \in {0, SegFill} :
           /\ segmentCache = SegPrefill(start.cache, start.order, n).cache
           /\ segmentCacheOrder = SegPrefill(start.cache, start.order, n).order
    /\ routeCache = <<>>
    /\ now = StartTime
    /\ call = Call("none", EmptyRequest, Null)
    /\ ret = Null
    /\ apiKey = FALSE
    /\ run = IdleRun
    /\ runs = 0
    /\ ticks = 0
    /\ asked = <<>>
    /\ answers = <<NoAnswer, NoAnswer>>
    /\ network = "any"
    /\ preferences = Null
    /\ fetches = <<>>
    /\ other = IdleOther

SegNext ==
    \/ \E e \in SegEdges : CacheSegment(e[1], e[2], e[3])
    \/ \E e \in SegEdges : GetSegment(e[1], e[2], e[3])
    \/ ClearSegmentCache

SegSpec == SegInit /\ [][SegNext]_vars

---------------------------------------------------------------------------
(* Properties of the Route Cache API                                       *)

ThirtyMinutes == 30 * 60 * 1000

\* the entries of a cache, as a set
Entries(cache) == {cache[i] : i \in 1..Len(cache)}

\* the step just taken is the call `op` (a tick leaves call.at behind now)
Called(op) == call'.op = op /\ call'.at = now' /\ now' = now

\* C3: in every reachable Route Cache state, setCachedRoute(r, R)
\* immediately followed by getCachedRoute(r) returns exactly R, also when
\* the store pushed the cache over its capacity of 50 entries.
C3_SetThenGet ==
    [][(/\ call.op = "setCachedRoute"
        /\ Called("getCachedRoute")
        /\ call'.request = call.request
        /\ call'.at = call.at)
       => ret' = call.route]_vars

\* a fetch that returned the route just stored into a cache that was full:
\* one of the two oldest entries made room
C3_Witness ==
    /\ call.op = "getCachedRoute"
    /\ ret = Some(MockRoute(2))
    /\ ticks = 0
    /\ Len(routeCache) = ROUTE_CACHE_MAX
    /\ \E i \in 1..2 : generateRouteKey(Filler(i)) \notin CacheKeys(routeCache)
    /\ \E j \in 1..Len(routeCache) :
           /\ routeCache[j].key = generateRouteKey(call.request)
           /\ routeCache[j].timestamp = call.at

\* r2 differs from r1 in a field of the request other than its stops
DiffersInOption(r1, r2) ==
    \/ r1.vehicleType # r2.vehicleType
    \/ r1.optimizationMethod # r2.optimizationMethod
    \/ r1.isLoop # r2.isLoop

\* r2 differs from r1 in the coordinates of a stop
DiffersInCoordinates(r1, r2) ==
    \/ Len(r1.locations) # Len(r2.locations)
    \/ \E i \in 1..Len(r1.locations) :
           r1.locations[i].coordinates # r2.locations[i].coordinates

\* ... in the coordinates of a stop once rounded to 4 decimal places
DiffersInRoundedCoordinates(r1, r2) ==
    \/ Len(r1.locations) # Len(r2.locations)
    \/ \E i \in 1..Len(r1.locations) : \E c \in 1..2 :
           ToFixed4(r1.locations[i].coordinates[c])
               # ToFixed4(r2.locations[i].coordinates[c])

\* the cache holds one entry, stored by the last call, and the step just
\* taken fetches r2
FetchAfterOnlyStore(r2) ==
    /\ call.op = "setCachedRoute"
    /\ Len(routeCache) = 1
    /\ Called("getCachedRoute")
    /\ call'.request = r2

\* C4, as amended: after a route was stored for request r1 only,
\* getCachedRoute(r2) returns absent for every r2 that differs from r1 in
\* vehicle type, optimization method, loop flag, or the coordinates of a
\* stop rounded to 4 decimal places.
C4_DifferentKeyAbsent ==
    [][\A r2 \in GetRequests :
          (/\ FetchAfterOnlyStore(r2)
           /\ \/ DiffersInOption(call.request, r2)
              \/ DiffersInRoundedCoordinates(call.request, r2))
          => ret' = Null]_vars

\* C4, as written: ... or the coordinates of any stop, however small the
\* difference.
C4_AnyDifferenceAbsent ==
    [][\A r2 \in GetRequests :
          (/\ FetchAfterOnlyStore(r2)
           /\ \/ DiffersInOption(call.request, r2)
              \/ DiffersInCoordinates(call.request, r2))
          => ret' = Null]_vars

\* a fetch for a stop moved by 0.0002 degree found nothing in a cache
\* holding the route of the unmoved stop only
C4_Witness ==
    /\ call.op = "getCachedRoute"
    /\ call.request = [MockRequest EXCEPT !.locations = <<StopAFar, StopB>>]
    /\ ret = Null
    /\ Len(routeCache) = 1
    /\ routeCache[1].key = generateRouteKey(MockRequest)

\* C5: an entry stored at time t and neither overwritten nor evicted is
\* returned by getCachedRoute at every time earlier than t + 30 minutes and
\* is absent at every time later than t + 30 minutes.
C5_LifeOfThirtyMinutes ==
    [][Called("getCachedRoute") =>
          \A i \in 1..Len(routeCache) :
              routeCache[i].key = generateRouteKey(call'.request) =>
                  /\ now < routeCache[i].timestamp + ThirtyMinutes
                         => ret' = Some(routeCache[i].route)
                  /\ now > routeCache[i].timestamp + ThirtyMinutes
                         => ret' = Null]_vars

\* a fetch in the last millisecond of an entry's life returned it
C5_Witness ==
    /\ call.op = "getCachedRoute"
    /\ ret # Null
    /\ \E i \in 1..Len(routeCache) :
           /\ routeCache[i].key = generateRouteKey(call.request)
           /\ routeCache[i].route = ret[1]
           /\ now = routeCache[i].timestamp + ThirtyMinutes - 1

\* C6: when setCachedRoute for a new fingerprint brings the Route Cache to
\* 51 entries, exactly one entry is removed, it has the minimum timestamp
\* of all entries, and every other entry is left unchanged.
C6_EvictsOneOldest ==
    [][(/\ Called("setCachedRoute")
        /\ Len(routeCache) = 50
        /\ generateRouteKey(call'.request) \notin CacheKeys(routeCache))
       => LET stored == [key |-> generateRouteKey(call'.request),
                         route |-> call'.route[1], timestamp |-> now]
          IN /\ Len(routeCache') = 50
             /\ \E e \in Entries(routeCache) :
                    /\ \A f \in Entries(routeCache) \cup {stored} :
                           e.timestamp <= f.timestamp
                    /\ Entries(routeCache')
                           = (Entries(routeCache) \ {e}) \cup {stored}]_vars

\* a store evicted the second entry inserted: the first one had been
\* stored again since and was no longer the oldest
C6_Witness ==
    /\ call.op = "setCachedRoute"
    /\ ticks = 0
    /\ Len(routeCache) = 50
    /\ generateRouteKey(Filler(1)) \in CacheKeys(routeCache)
    /\ generateRouteKey(Filler(2)) \notin CacheKeys(routeCache)

\* C7: setCachedRoute on a fingerprint already in the Route Cache replaces
\* its route with the new one and resets its timestamp to the current time,
\* leaves the entry count unchanged, and changes no other entry.
C7_OverwriteInPlace ==
    [][(/\ Called("setCachedRoute")
        /\ generateRouteKey(call'.request) \in CacheKeys(routeCache))
       => /\ Len(routeCache') = Len(routeCache)
          /\ \A i \in 1..Len(routeCache) :
                 IF routeCache[i].key = generateRouteKey(call'.request)
                 THEN /\ routeCache'[i].key = routeCache[i].key
                      /\ routeCache'[i].route = call'.route[1]
                      /\ routeCache'[i].timestamp = now
                 ELSE routeCache'[i] = routeCache[i]]_vars

\* a store replaced the route of an older entry and restarted its life
C7_Witness ==
    /\ call.op = "setCachedRoute"
    /\ call.request = Filler(1)
    /\ call.route = Some(MockRoute(2))
    /\ Len(routeCache) = CacheFill
    /\ routeCache[1].route = MockRoute(2)
    /\ routeCache[1].timestamp = now
    /\ routeCache[2].timestamp < now

---------------------------------------------------------------------------
(* Properties of calculateRoute                                            *)

\* some stop lacks coordinates, or there are fewer than 2 stops
Rejected(request) ==
    \/ Len(request.locations) < 2
    \/ \E i \in 1..Len(request.locations) :
           request.locations[i].coordinates = NoCoordinates

\* the call last made is calculateRoute and it has returned or thrown
Returned == call.op = "calculateRoute" /\ run.pc = "idle"

\* C1: for every accepted request and every combination of provider
\* outcomes, per call, calculateRoute returns a route and never surfaces an
\* error: a provider's failure is absorbed by the next tier.
C1_ProviderFailureAbsorbed ==
    (call.op = "calculateRoute" /\ ~Rejected(call.request)) =>
        /\ run.pc \in {"idle", "score", "segments"}
        /\ run.pc # "idle" => ret = Null
        /\ run.pc = "idle" => /\ ret # Null
                              /\ ret[1].status = "ok"
                              /\ ret[1].route # Null

\* a truck route returned although both providers failed for its last
\* segment, which is a straight line
C1_Witness ==
    /\ Returned
    /\ ret # Null
    /\ ret[1].status = "ok"
    /\ asked = <<"ors", "osrm">>
    /\ LET segments == ret[1].route[1].segments
       IN segments[Len(segments)].polyline = "null"

\* C2: in every reachable cache state, calculateRoute fails for every
\* request in which some stop lacks coordinates or which has fewer than 2
\* stops, and such a call adds or overwrites no Route Cache entry.
C2_RejectedFails ==
    [][(runs' = runs + 1 /\ Rejected(call'.request))
       => /\ ret' = Some(Response("error", Null, "none"))
          /\ run'.pc = "idle"
          /\ Entries(routeCache') \subseteq Entries(routeCache)]_vars

\* a rejected call made while the Route Cache held a route
C2_Witness ==
    /\ Returned
    /\ Rejected(call.request)
    /\ ret = Some(Response("error", Null, "none"))
    /\ routeCache # <<>>

\* C8: when calculateRoute finds a live Route Cache entry for the request,
\* it returns that route tagged as a cache hit, without running the
\* sequencer, without a provider call, and without clearing or writing the
\* Segment Cache.
C8_CacheHitIsImmediate ==
    [][runs' = runs + 1 =>
          \A i \in 1..Len(routeCache) :
              (/\ routeCache[i].key = generateRouteKey(call'.request)
               /\ now - routeCache[i].timestamp < ThirtyMinutes)
              => /\ ret' = Some(Response("ok", Some(routeCache[i].route),
                                         "cache-hit"))
                 /\ run'.pc = "idle"
                 /\ asked' = <<>>
                 /\ segmentCache' = segmentCache
                 /\ segmentCacheOrder' = segmentCacheOrder]_vars

\* a cache hit that left the segments of the run before in the Segment
\* Cache
C8_Witness ==
    /\ Returned
    /\ ret # Null
    /\ ret[1].algorithm = "cache-hit"
    /\ segmentCache # EmptyMap
    /\ segmentCacheOrder # <<>>

\* the routes calculateRoute has returned
ReturnedRoutes ==
    IF Returned /\ ret # Null /\ ret[1].route # Null
    THEN {ret[1].route[1]} ELSE {}

\* C9: every route returned has one segment less than stops when it is not
\* a loop, as many segments as stops when it is a loop of 3 stops or more,
\* and 1 segment when it is a loop of 2 stops; the stops are those of the
\* route's own final list.
C9_SegmentCount ==
    \A route \in ReturnedRoutes :
        LET stops == Len(route.locations)
            count == Len(route.segments)
        IN /\ ~route.isLoop => count = stops - 1
           /\ route.isLoop /\ stops >= 3 => count = stops
           /\ route.isLoop /\ stops = 2 => count = 1

\* a loop over 2 stops, left of a request of 3, returned with 1 segment
C9_Witness ==
    \E route \in ReturnedRoutes :
        /\ route.isLoop
        /\ Len(call.request.locations) = 3
        /\ Len(route.locations) = 2
        /\ Len(route.segments) = 1

\* the sum of a field over the first n segments
PartialSum(segments, field) ==
    LET sum[n \in 0..Len(segments)] ==
            IF n = 0 THEN 0 ELSE sum[n - 1] + segments[n][field]
    IN sum[Len(segments)]

\* C10: in every route returned, totalDistance is the sum of the distances
\* and totalDuration the sum of the durations of the segments stored in
\* route.segments.
C10_TotalsAreSums ==
    \A route \in ReturnedRoutes :
        /\ route.totalDistance = PartialSum(route.segments, "distance")
        /\ route.totalDuration = PartialSum(route.segments, "duration")
        /\ Len(route.locations) = 2 /\ Len(route.segments) = 1
               => route.totalDistance = route.segments[1].distance

\* a route of 3 segments, each of them counted in its totals
C10_Witness ==
    \E route \in ReturnedRoutes :
        /\ Len(route.segments) = 3
        /\ \A i \in 1..3 : route.segments[i].distance > 0
        /\ route.totalDistance
               = route.segments[1].distance + route.segments[2].distance
                 + route.segments[3].distance
        /\ route.totalDistance > route.segments[1].distance

---------------------------------------------------------------------------
(* Properties of the location sequencer                                    *)

\* the routes calculateRoute has computed (not taken from the Route Cache)
ComputedRoutes ==
    {route \in ReturnedRoutes : ret[1].algorithm # "cache-hit"}

AllLocked(locations) == \A i \in 1..Len(locations) : locations[i].isLocked

\* the same stops, each as often
SameStops(s, t) ==
    /\ Len(s) = Len(t)
    /\ \A x \in {s[i] : i \in 1..Len(s)} \cup {t[i] : i \in 1..Len(t)} :
           Cardinality({i \in 1..Len(s) : s[i] = x})
               = Cardinality({i \in 1..Len(t) : t[i] = x})

AscendingIndex(locations) ==
    \A i, j \in 1..Len(locations) :
        i < j => locations[i].order <= locations[j].order

\* C11: for every request of 2 or more stops, all of them locked, the
\* sequencer's output is the input sorted by ascending position index,
\* requests of 2 stops given in descending order included.
C11_AllLockedSorted ==
    \A route \in ComputedRoutes :
        (Len(call.request.locations) >= 2 /\ AllLocked(call.request.locations))
        => /\ SameStops(route.locations, call.request.locations)
           /\ AscendingIndex(route.locations)

\* the locked stops carry distinct position indices within 0..n-1
WellIndexed(locations) ==
    \A i \in 1..Len(locations) :
        locations[i].isLocked =>
            /\ locations[i].order \in 0..(Len(locations) - 1)
            /\ \A j \in 1..Len(locations) :
                   (j # i /\ locations[j].isLocked)
                   => locations[j].order # locations[i].order

\* C12: for every accepted request, of 2 stops or more, whose locked stops
\* carry distinct position indices within 0..n-1, each locked stop is at
\* the index it declares in the final route.
C12_LockedAtIndex ==
    \A route \in ComputedRoutes :
        WellIndexed(call.request.locations) =>
            \A i \in 1..Len(call.request.locations) :
                LET stop == call.request.locations[i]
                IN stop.isLocked =>
                       /\ stop.order + 1 <= Len(route.locations)
                       /\ route.locations[stop.order + 1] = stop

\* the segment calculateSegment returns for a pair in the current state:
\* the cached one, or the one the network's condition yields
ResolvedSegment(from, to, vehicleType) ==
    LET ors == CHOOSE a \in OrsChoices(segmentCache, apiKey, from, to,
                                       vehicleType) : TRUE
        osrm == CHOOSE a \in OsrmChoices(segmentCache, apiKey, from, to,
                                         vehicleType, ors) : TRUE
    IN calculateSegment(segmentCache, segmentCacheOrder, apiKey, from, to,
                        vehicleType, ors, osrm).segment[1]

\* calculateOrderScore of an order taken as a loop: every consecutive pair
\* and the wrap-around edge
RECURSIVE SumScores(_, _, _)
SumScores(edges, method, vehicleType) ==
    IF edges = <<>> THEN 0
    ELSE SumScores(SubSeq(edges, 1, Len(edges) - 1), method, vehicleType)
         + SegmentScore(ResolvedSegment(edges[Len(edges)][1],
                                        edges[Len(edges)][2], vehicleType),
                        method)

LoopScore(locations, method, vehicleType) ==
    SumScores(OrderEdges(locations, TRUE), method, vehicleType)

\* a loop request of 3 to 6 stops, none locked
SmallOpenLoop(request) ==
    /\ request.isLoop
    /\ Len(request.locations) \in 3..6
    /\ \A i \in 1..Len(request.locations) : ~request.locations[i].isLocked

\* C13: in loop mode, with no locked stop and 3 to 6 stops, the loop score
\* of the returned order is at most the loop score of the input order.
C13_NoWorseThanInput ==
    \A route \in ComputedRoutes :
        SmallOpenLoop(call.request) =>
            LoopScore(route.locations, call.request.optimizationMethod,
                      call.request.vehicleType)
            <= LoopScore(call.request.locations,
                         call.request.optimizationMethod,
                         call.request.vehicleType)

\* a 4-stop loop came back in an order that is not the nearest-neighbour
\* baseline: the permutations decided
C13_Witness ==
    \E route \in ComputedRoutes :
        /\ SmallOpenLoop(call.request)
        /\ Len(call.request.locations) = 4
        /\ route.locations
               # nearestNeighborOptimization(call.request.locations,
                     call.request.optimizationMethod, TRUE).order
        /\ LoopScore(route.locations, call.request.optimizationMethod,
                     call.request.vehicleType)
           < LoopScore(nearestNeighborOptimization(call.request.locations,
                           call.request.optimizationMethod, TRUE).order,
                       call.request.optimizationMethod,
                       call.request.vehicleType)

\* C14: for every set of 3 or more stops, the order the loop-aware
\* comparison (nearest-first, farthest-first, alternate-second) returns has
\* a complete-loop score at most that of the same stops in input order.
C14_LoopAwareNoWorseThanInput ==
    LET unlocked == UnlockedOf(run.request.locations)
        method == run.request.optimizationMethod
    IN (run.pc = "score" /\ run.request.isLoop /\ Len(unlocked) >= 3)
       => calculateCompleteLoopScore(loopAwareOptimization(unlocked, method),
                                     method)
          <= calculateCompleteLoopScore(unlocked, method)

---------------------------------------------------------------------------
(* Properties of the segment resolver                                      *)

\* the last resolution asked the network and both tiers failed: the heavy
\* provider if it was tried, and the general provider
BothTiersFailed ==
    /\ asked # <<>>
    /\ asked[Len(asked)] = "osrm"
    /\ answers[2].status \in {"error", "malformed"}
    /\ answers[1].status # "ok"

\* the segment the last resolution that asked the network has produced
LastResolved == segmentCache[segmentCacheOrder[Len(segmentCacheOrder)]]

\* C15 as stated: for every pair of located stops, identical coordinates
\* included, and either vehicle, when both network tiers fail the segment
\* returned has no polyline and a duration strictly positive.
C15_FallbackDurationPositive ==
    BothTiersFailed =>
        /\ LastResolved.polyline = "null"
        /\ LastResolved.duration > 0

\* C15, amended: when both network tiers fail the segment returned has no
\* polyline, the geodesic distance, and a duration that is strictly
\* positive when the coordinates of the two stops differ and 0 when they
\* are identical.
C15_FallbackSegment ==
    BothTiersFailed =>
        LET segment == LastResolved
            same == segment.from.coordinates = segment.to.coordinates
        IN /\ segment.polyline = "null"
           /\ segment.distance = calculateDistance(segment.from.coordinates,
                                                   segment.to.coordinates)
           /\ ~same => segment.duration > 0
           /\ same => segment.duration = 0 /\ segment.distance = 0

\* both tiers failed for a truck between two stops at the same place
C15_Witness ==
    /\ BothTiersFailed
    /\ call.request.vehicleType = "truck"
    /\ asked = <<"ors", "osrm">>
    /\ LastResolved.from.coordinates = LastResolved.to.coordinates
    /\ LastResolved.from.id # LastResolved.to.id
    /\ LastResolved.polyline = "null"

---------------------------------------------------------------------------
(* Properties of the Segment Cache                                         *)

\* when a key of the cache was inserted: its last place in the insertion
\* record, every insertion appending the key and every removal of a record
\* deleting the key
InsertedAt(key) ==
    CHOOSE i \in 1..Len(segmentCacheOrder) :
        /\ segmentCacheOrder[i] = key
        /\ \A j \in (i + 1)..Len(segmentCacheOrder) :
               segmentCacheOrder[j] # key

\* C16: after any sequence of insertions, reads and run-boundary clears,
\* the key an insertion into a full Segment Cache evicts is the earliest
\* inserted among the keys in the cache at that moment.
C16_EvictsEarliestInserted ==
    [][Called("cacheSegment") =>
           \A evicted \in (DOMAIN segmentCache) \ (DOMAIN segmentCache') :
               \A key \in DOMAIN segmentCache :
                   InsertedAt(evicted) <= InsertedAt(key)]_vars

\* C17: clearing the Segment Cache leaves both the map and the
\* insertion-order record empty.
C17_ClearEmptiesBoth ==
    call.op = "clearSegmentCache" =>
        /\ segmentCache = EmptyMap
        /\ segmentCacheOrder = <<>>

\* a step that starts a run which misses the Route Cache
StartsMissingRun ==
    /\ Called("calculateRoute")
    /\ runs' = runs + 1
    /\ ~(ret' # Null /\ ret'[1].algorithm = "cache-hit")

\* C18: across sequential runs, every run that misses the Route Cache
\* starts its sequencing with an empty Segment Cache, so that no segment
\* resolved in an earlier run is returned to a later run.
C18_RunStartsEmpty ==
    [][StartsMissingRun => segmentCache' = EmptyMap]_vars

\* a second run has missed the Route Cache after a run that resolved
\* segments: it starts on an empty map
C18_Witness ==
    /\ runs = 2
    /\ run.pc \in {"score", "segments"}
    /\ asked = <<>>
    /\ segmentCacheOrder # <<>>
    /\ segmentCache = EmptyMap

---------------------------------------------------------------------------
(* Properties of clearAllCache                                             *)

\* C19: after clearAllCache, getCachedRoute returns absent for every
\* request, the reported route count is 0 and there are no stored
\* preferences.
C19_ClearAllCache ==
    call.op = "clearAllCache" =>
        /\ \A request \in SetRequests \cup GetRequests
                          \cup {Filler(i) : i \in 1..CacheFill} :
               LookupRoute(cleanRouteCache(routeCache, now), request, now)
                   = Null
        /\ routeCount = 0
        /\ getUserPreferences = Null

\* clearAllCache has been called
C19_Witness ==
    /\ call.op = "clearAllCache"
    /\ routeCount = 0
    /\ getUserPreferences = Null
    /\ ret = Null

---------------------------------------------------------------------------
(* Properties of the order of the tiers                                    *)

\* C20: the resolver tries its tiers in a fixed order, each at most once:
\* the heavy-vehicle provider only for a truck with a credential, the
\* general provider only when the heavy-vehicle provider was not tried or
\* has failed, the geodesic fallback only when the general provider has
\* failed, and no tier after one has succeeded.
C20_TierOrder ==
    asked # <<>> =>
        LET segment == LastResolved
            orsOk == answers[1].status = "ok"
            osrmOk == answers[2].status = "ok"
            osrmAsked == asked[Len(asked)] = "osrm"
        IN /\ asked \in {<<"ors">>, <<"osrm">>, <<"ors", "osrm">>}
           /\ asked[1] = "ors"
              => call.request.vehicleType = "truck" /\ apiKey
           /\ osrmAsked => asked = <<"osrm">> \/ ~orsOk
           /\ segment.polyline = "null" => osrmAsked /\ ~osrmOk
           /\ orsOk => /\ asked = <<"ors">>
                       /\ segment = OrsSegment(segment.from, segment.to,
                                               answers[1])
           /\ (osrmAsked /\ osrmOk)
              => segment = OsrmSegment(segment.from, segment.to,
                                       call.request.vehicleType, answers[2])

\* the heavy-vehicle provider failed, the general provider answered, and
\* the segment is the general provider's
C20_Witness ==
    /\ asked = <<"ors", "osrm">>
    /\ answers[1].status \in {"error", "malformed"}
    /\ answers[2].status = "ok"
    /\ LastResolved.polyline = "geojson"
    /\ LastResolved = OsrmSegment(LastResolved.from, LastResolved.to, "truck",
                                  answers[2])

\* C21: the synthetic truck adjustment (distance x1.1, duration x1.4) is
\* applied to a segment exactly when the general provider produced it and
\* the vehicle is a truck, the heavy-vehicle provider having failed first
\* or not; never to a heavy-vehicle provider's segment, a car's segment or
\* a geodesic fallback segment.
C21_TruckAdjustment ==
    asked # <<>> =>
        LET segment == LastResolved
            truck == call.request.vehicleType = "truck"
            osrmAsked == asked[Len(asked)] = "osrm"
            geodesic == calculateDistance(segment.from.coordinates,
                                          segment.to.coordinates)
            distance == answers[2].distance
            duration == (answers[2].duration * 1000) \div 60
        IN /\ asked = <<"ors">>
              => /\ segment.distance = answers[1].distance
                 /\ segment.duration = (answers[1].duration * 1000) \div 60
           /\ (osrmAsked /\ answers[2].status = "ok" /\ truck)
              => /\ segment.distance = (distance * 11) \div 10
                 /\ segment.duration = (duration * 14) \div 10
           /\ (osrmAsked /\ answers[2].status = "ok" /\ ~truck)
              => /\ segment.distance = distance
                 /\ segment.duration = duration
           /\ (osrmAsked /\ answers[2].status # "ok")
              => /\ segment.distance = geodesic
                 /\ segment.duration
                        = (geodesic * 60) \div (IF truck THEN 50 ELSE 70)

\* a truck's segment from the general provider, after the heavy-vehicle
\* provider failed: longer and slower than the provider's answer
C21_Witness ==
    /\ asked = <<"ors", "osrm">>
    /\ call.request.vehicleType = "truck"
    /\ answers[2].status = "ok"
    /\ LastResolved.distance > answers[2].distance
    /\ LastResolved.duration > (answers[2].duration * 1000) \div 60

---------------------------------------------------------------------------
(* Properties of the Segment Cache within a run                            *)

\* the keys of the first n of some pairs
EdgeKeys(edges, vehicleType, n) ==
    {generateSegmentKey(edges[i][1], edges[i][2], vehicleType) : i \in 1..n}

\* the orders the bounded search of a request scores
ScoredOrders(request) ==
    LET unlocked == UnlockedOf(request.locations)
    IN IF Len(request.locations) > 2 /\ Len(unlocked) \in 2..8
       THEN AdvancedCandidates(unlocked,
                nearestNeighborOptimization(unlocked,
                    request.optimizationMethod, request.isLoop).order)
       ELSE <<>>

\* the keys the run in progress has resolved so far
ResolvedBefore ==
    LET request == run.request
        AllKeys(order) ==
            EdgeKeys(OrderEdges(order, request.isLoop), request.vehicleType,
                     Len(OrderEdges(order, request.isLoop)))
    IN IF run.pc = "score"
       THEN UNION {AllKeys(run.cands[c]) : c \in 1..(run.ci - 1)}
            \cup EdgeKeys(OrderEdges(run.cands[run.ci], request.isLoop),
                          request.vehicleType, run.ei - 1)
       ELSE IF run.pc = "segments"
       THEN UNION {AllKeys(ScoredOrders(request)[c]) :
                       c \in 1..Len(ScoredOrders(request))}
            \cup EdgeKeys(RouteEdges(run.optimized, request.isLoop),
                          request.vehicleType, Len(run.segments))
       ELSE {}

\* a step that resolves the current pair
Resolves == run.pc \in {"score", "segments"} /\ run' # run /\ now' = now

\* the resolution is served by the cache: no provider is asked and the
\* cache stays as it is
ServedByCache ==
    /\ CurrentKey \in DOMAIN segmentCache
    /\ asked' = <<>>
    /\ UNCHANGED <<segmentCache, segmentCacheOrder>>

\* C22 as stated: within a run, once a key was resolved by any tier, every
\* later resolution of it in the run is served by the cache without a
\* provider call, whatever the size of the request, runs that insert more
\* segments than the capacity of the cache included.
C22_ResolvedOncePerRun ==
    [][(Resolves /\ CurrentKey \in ResolvedBefore) => ServedByCache]_vars

\* C22, amended: within a run that has resolved at most as many distinct
\* keys as the cache holds, once a key was resolved by any tier, the
\* geodesic fallback included, every later resolution of it in the run is
\* served by the cache without a provider call.
C22_ResolvedOnceWithinCapacity ==
    [][(/\ Resolves
        /\ CurrentKey \in ResolvedBefore
        /\ Cardinality(ResolvedBefore) <= MAX_SEGMENT_CACHE_SIZE)
       => ServedByCache]_vars

\* the scoring of a later order was served a straight-line segment by the
\* cache while the network is down
C22_Witness ==
    /\ run.pc = "score"
    /\ run.ci > 1
    /\ asked = <<>>
    /\ network = "down"
    /\ \E key \in DOMAIN segmentCache : segmentCache[key].polyline = "null"

---------------------------------------------------------------------------
(* Properties of the purge                                                 *)

\* C23: after every getCachedRoute call, whatever fingerprint was asked
\* for, no entry older than 30 minutes remains in the Route Cache.
C23_NoExpiredAfterGet ==
    (call.op = "getCachedRoute" /\ call.at = now) =>
        \A entry \in Entries(routeCache) :
            now - entry.timestamp <= ThirtyMinutes

\* a fetch of a fingerprint that is not stored, made more than 30 minutes
\* after the start, has left the entries stored since
C23_Witness ==
    /\ call.op = "getCachedRoute"
    /\ call.at = now
    /\ now - StartTime > ThirtyMinutes
    /\ ret = Null
    /\ routeCache # <<>>
    /\ \A entry \in Entries(routeCache) : entry.timestamp > StartTime

---------------------------------------------------------------------------
(* Properties of the choice of strategy                                    *)

\* the nearest-neighbour order of the unlocked stops of the run's request
Baseline ==
    nearestNeighborOptimization(UnlockedOf(run.request.locations),
        run.request.optimizationMethod, run.request.isLoop).order

\* the sequencer has returned and no segment of the route is resolved yet
Sequenced == run.pc = "segments" /\ run.segments = <<>>

\* C24: the sequencer picks its strategy from the number of unlocked stops
\* alone.  With 8 or fewer it uses bounded search (the baseline is scored
\* through the resolver), with more than 8 the nearest-neighbour family
\* (nothing is scored); bounded search scores permutations only for 6 or
\* fewer unlocked stops and at most 20 of them, so that with 7 or 8 its
\* result is the nearest-neighbour baseline.
C24_StrategyByUnlockedCount ==
    LET request == run.request
        unlocked == Len(UnlockedOf(request.locations))
        baselineKeys ==
            EdgeKeys(OrderEdges(Baseline, request.isLoop), request.vehicleType,
                     Len(OrderEdges(Baseline, request.isLoop)))
    IN /\ run.pc = "score"
          => /\ unlocked <= 8
             /\ Len(run.cands) <= 21
             /\ run.cands[1] = Baseline
             /\ unlocked > 6 => Len(run.cands) = 1
       /\ (Sequenced /\ unlocked \in 2..8)
          => baselineKeys \subseteq DOMAIN segmentCache
       /\ (Sequenced /\ unlocked \in 7..8)
          => run.optimized = Merged(request, Baseline)
       /\ (Sequenced /\ unlocked > 8)
          => /\ run.optimized = Merged(request, Baseline)
             /\ segmentCache = EmptyMap

\* calculateOrderScore of an order once its edges are resolved
OrderScore(order) ==
    SumScores(OrderEdges(order, run.request.isLoop),
              run.request.optimizationMethod, run.request.vehicleType)

\* the bounded search ran: a request of 3 or more stops, 2 to 8 unlocked
Searched ==
    /\ Sequenced
    /\ Len(run.request.locations) >= 3
    /\ Len(UnlockedOf(run.request.locations)) \in 2..8

\* C25: the bounded search returns an order whose score is at most the
\* score of the baseline and of every permutation it enumerated, and among
\* orders of equal score the earliest evaluated, the baseline first.
C25_BoundedSearchKeepsBest ==
    LET cands == AdvancedCandidates(UnlockedOf(run.request.locations), Baseline)
    IN Searched
       => \E k \in 1..Len(cands) :
              /\ run.optimized = Merged(run.request, cands[k])
              /\ \A j \in 1..Len(cands) :
                     OrderScore(cands[k]) <= OrderScore(cands[j])
              /\ \A j \in 1..(k - 1) :
                     OrderScore(cands[j]) > OrderScore(cands[k])

\* the search ended with permutations scored, and a later, different order
\* had the score of the one returned
C25_Witness ==
    LET cands == AdvancedCandidates(UnlockedOf(run.request.locations), Baseline)
    IN /\ Searched
       /\ Len(cands) > 1
       /\ \E k, j \in 1..Len(cands) :
              /\ k < j
              /\ run.optimized = Merged(run.request, cands[k])
              /\ Merged(run.request, cands[j]) # run.optimized
              /\ OrderScore(cands[j]) = OrderScore(cands[k])

\* the run's baseline came from the loop-aware comparison: a loop with 3 or
\* more unlocked stops, being scored by the bounded search or sequenced by
\* the nearest-neighbour family alone
LoopCompared ==
    /\ run.request.isLoop
    /\ Len(run.request.locations) >= 3
    /\ \/ run.pc = "score" /\ Len(UnlockedOf(run.request.locations)) >= 3
       \/ Sequenced /\ Len(UnlockedOf(run.request.locations)) > 8

\* what the loop-aware comparison returned in the run
LoopCompareResult ==
    IF run.pc = "score" THEN Merged(run.request, run.cands[1])
    ELSE run.optimized

\* C26: the loop-aware comparison returns the order of lowest complete-loop
\* score among the nearest-first, the farthest-first and the
\* alternate-second candidates, and among candidates of equal score the
\* first evaluated.
C26_LoopAwareKeepsBest ==
    LET method == run.request.optimizationMethod
        cands == LoopCandidates(UnlockedOf(run.request.locations), method)
    IN LoopCompared
       => \E k \in 1..Len(cands) :
              /\ LoopCompareResult = Merged(run.request, cands[k])
              /\ \A j \in 1..Len(cands) :
                     calculateCompleteLoopScore(cands[k], method)
                     <= calculateCompleteLoopScore(cands[j], method)
              /\ \A j \in 1..(k - 1) :
                     calculateCompleteLoopScore(cands[j], method)
                     > calculateCompleteLoopScore(cands[k], method)

\* a comparison that the nearest-first candidate lost to a later one, while
\* two later candidates of the winner's score differed
C26_Witness ==
    LET method == run.request.optimizationMethod
        cands == LoopCandidates(UnlockedOf(run.request.locations), method)
    IN /\ LoopCompared
       /\ calculateCompleteLoopScore(cands[1], method)
          > calculateCompleteLoopScore(Baseline, method)
       /\ \E k, j \in 2..Len(cands) :
              /\ k < j
              /\ cands[k] = Baseline
              /\ cands[j] # cands[k]
              /\ calculateCompleteLoopScore(cands[j], method)
                 = calculateCompleteLoopScore(cands[k], method)

\* the bounded search is scoring a baseline that came from the standard
\* nearest-neighbour loop: an open route, or 2 stops to order
NearestOrdered ==
    /\ run.pc = "score"
    /\ ~(run.request.isLoop /\ Len(UnlockedOf(run.request.locations)) >= 3)

\* the stops of the unlocked set that are not among the first n of order
NotYetPlaced(unlocked, order, n) ==
    {unlocked[i] : i \in 1..Len(unlocked)} \ {order[i] : i \in 1..n}

\* C27: the non-loop nearest-neighbour order starts with the first stop of
\* the unlocked set, and each following stop has the least per-step score
\* against the stop placed before it among all stops not yet placed.
C27_NearestNeighborOrder ==
    LET unlocked == UnlockedOf(run.request.locations)
        method == run.request.optimizationMethod
        order == run.cands[1]
    IN NearestOrdered
       => /\ Len(order) = Len(unlocked)
          /\ order[1] = unlocked[1]
          /\ \A i \in 2..Len(order) :
                 /\ order[i] \in NotYetPlaced(unlocked, order, i - 1)
                 /\ \A loc \in NotYetPlaced(unlocked, order, i - 1) :
                        NearestStepScore(Dist(order[i - 1], order[i]), method)
                        <= NearestStepScore(Dist(order[i - 1], loc), method)

\* an order of 3 stops that differs from the input order, its second stop
\* farther from the first than a stop placed later
C27_Witness ==
    LET unlocked == UnlockedOf(run.request.locations)
        order == run.cands[1]
    IN /\ NearestOrdered
       /\ Len(unlocked) = 3
       /\ order # unlocked
       /\ Dist(order[1], order[2]) > Dist(order[1], order[3])

\* the provider calls of the current run that have no answer yet
Outstanding ==
    {i \in DOMAIN fetches :
         fetches[i].at[1] = runs /\ fetches[i].answer = NoAnswer}

\* C28: within one run at most one provider call is outstanding at any
\* moment, and a provider call for an edge is issued only after the
\* resolution of the previous edge has completed: an unanswered call is the
\* last one issued and is for the pair being resolved, and every call for
\* an earlier pair is answered and that pair's segment is stored.
C28_OneCallOutstanding ==
    /\ Cardinality(Outstanding) <= 1
    /\ \A i \in Outstanding :
           i = Len(fetches) /\ fetches[i].at = Position
    /\ \A i \in DOMAIN fetches :
           (fetches[i].at[1] = runs /\ fetches[i].at # Position)
           => /\ fetches[i].answer # NoAnswer
              /\ fetches[i].key \in DOMAIN segmentCache

\* the general provider's call for a pair is outstanding, after the
\* heavy-vehicle provider failed for it and after calls for earlier pairs
C28_Witness ==
    /\ Cardinality(Outstanding) = 1
    /\ fetches[Len(fetches)].provider = "osrm"
    /\ Len(Sent) = 2
    /\ Sent[1].answer.status = "error"
    /\ \E i \in DOMAIN fetches : fetches[i].at # Position

\* C29: for every accepted request, those whose locked stops have a
\* missing, duplicated or out-of-range position index included, the final
\* route contains every stop of the request exactly once.
C29_EveryStopOnce ==
    \A route \in ComputedRoutes :
        SameStops(route.locations, call.request.locations)

\* C30: every calculateRoute call on an accepted request returns in the
\* end, provided every provider call is answered or fails in the end,
\* requests in which two stops share an id included.
C30_EveryCallReturns ==
    (call.op = "calculateRoute" /\ Accepted(call.request) /\ ret = Null)
        ~> (ret # Null)

\* the stops of a request
StopsOf(request) == {request.locations[i] : i \in 1..Len(request.locations)}

C32_SegmentsFollowStops ==
    \A route \in ComputedRoutes :
        \A i \in 1..Len(route.segments) :
            /\ i <= Len(route.locations)
            /\ route.segments[i].from = route.locations[i]
            /\ route.segments[i].to
                   = route.locations[IF i = Len(route.locations) THEN 1
                                     ELSE i + 1]

\* C33: after any sequence of runs, the Segment Cache's insertion-order
\* record lists exactly the keys that are in the segment map, each once, so
\* that its length never exceeds the capacity of 100.
C33_OrderListsMapKeys ==
    /\ {segmentCacheOrder[i] : i \in 1..Len(segmentCacheOrder)}
           = DOMAIN segmentCache
    /\ Len(segmentCacheOrder) = Cardinality(DOMAIN segmentCache)
    /\ Len(segmentCacheOrder) <= MAX_SEGMENT_CACHE_SIZE

\* C34: after any sequence of resolutions and run-boundary clears, the
\* segment map never holds more than 100 entries.
C34_SegmentMapBounded ==
    Cardinality(DOMAIN segmentCache) <= MAX_SEGMENT_CACHE_SIZE

\* a store into the full map: it holds 100 entries after it, the last
\* prefilled key among them and an earlier one evicted
C34_Witness ==
    /\ call.op = "cacheSegment"
    /\ Cardinality(DOMAIN segmentCache) = MAX_SEGMENT_CACHE_SIZE
    /\ SegFillerKey(SegFill) \in DOMAIN segmentCache
    /\ \E i \in 1..SegFill : SegFillerKey(i) \notin DOMAIN segmentCache

\* C35: after any sequence of setCachedRoute, getCachedRoute,
\* cleanRouteCache and clearAllCache calls with a non-decreasing clock, the
\* Route Cache never holds more than 50 entries.
C35_RouteCacheBounded == Len(routeCache) <= ROUTE_CACHE_MAX

\* a store of a new fingerprint has left the Route Cache with 50 entries,
\* a prefilled entry gone and the clock unmoved: the store evicted it
C35_Witness ==
    /\ call.op = "setCachedRoute"
    /\ ticks = 0
    /\ Len(routeCache) = ROUTE_CACHE_MAX
    /\ generateRouteKey(call.request) \in CacheKeys(routeCache)
    /\ \E i \in 1..CacheFill :
           generateRouteKey(Filler(i)) \notin CacheKeys(routeCache)

\* C36: after calculateRoute has computed a route for a request, the Route
\* Cache holds that route under the fingerprint of the request as it was
\* submitted, so that an equal request within 30 minutes is answered from
\* the cache; requests in which every stop is locked included.
C36_StoredAsSubmitted ==
    \A route \in ComputedRoutes :
        /\ \E i \in 1..Len(routeCache) :
               /\ routeCache[i].key = generateRouteKey(call.request)
               /\ routeCache[i].route = route
        /\ now - call.at < ROUTE_CACHE_DURATION
           => LookupRoute(routeCache, call.request, now) = Some(route)

\* the route calculateRoute has just returned from the Route Cache
CacheHitRoutes ==
    {route \in ReturnedRoutes : ret[1].algorithm = "cache-hit"}

\* every stop the request locks at a position of the route is there
HonorsLocks(route, request) ==
    \A i \in 1..Len(request.locations) :
        LET stop == request.locations[i]
        IN (stop.isLocked /\ stop.order \in 0..(Len(route.locations) - 1))
           => route.locations[stop.order + 1].id = stop.id

\* C37: every route calculateRoute returns from the Route Cache satisfies
\* the lock constraints of the request that fetched it: requests that
\* differ only in which stops are locked, or in their position indices, do
\* not share a cached route.
C37_CacheHitHonorsLocks ==
    \A route \in CacheHitRoutes : HonorsLocks(route, call.request)

\* C38: the purge condition and the hit condition of the Route Cache
\* agree: an entry that cleanRouteCache leaves in the cache at time t is
\* returned by getCachedRoute for its fingerprint at that time, an entry
\* aged exactly 30 minutes included.
C38_KeptIsReturned ==
    call.op = "getCachedRoute"
    => \A i \in 1..Len(routeCache) :
           routeCache[i].key = generateRouteKey(call.request)
           => ret = Some(routeCache[i].route)

NoLockedStops(request) ==
    \A i \in 1..Len(request.locations) : ~request.locations[i].isLocked

\* C39: for a request with no locked stops, loop or not, the first stop of
\* the request is the first stop of the route calculateRoute computes for
\* it: no strategy, the bounded permutation search included, moves the
\* start stop.
C39_StartStopKept ==
    \A route \in ComputedRoutes :
        NoLockedStops(call.request)
        => route.locations[1].id = call.request.locations[1].id


====
